---- MODULE Spec2Model ----
(***************************************************************************)
(* Budget tracker: the ledger identity and aggregation core.               *)
(*                                                                         *)
(* The repository holds two servers over the same REST interface:          *)
(*   - the MongoDB server (src/unnamed/part_000): async handlers, every    *)
(*     `await` on a database call is a point where another request's       *)
(*     database call may take effect; ids come from getNextId, an atomic   *)
(*     findOneAndUpdate($inc, upsert) on a Counter document;               *)
(*   - the SQLite server (src/unnamed/part_001): better-sqlite3 is         *)
(*     synchronous, so a handler is one atomic step; ids come from         *)
(*     INTEGER PRIMARY KEY AUTOINCREMENT and a handler answers with the    *)
(*     connection's lastInsertRowid; the user is hard-coded to 1.          *)
(* `variant` says which server a behaviour is about.                       *)
(*                                                                         *)
(* A request is a process p: pc[p] is its position (the await it is        *)
(* suspended at), req[p] its parsed input and loc[p] its local variables;  *)
(* an answered request leaves nothing behind but `last`, the record of the *)
(* most recent answer.  The step that receives a request is merged with    *)
(* the request's first database call (nothing is visible in between).      *)
(* Amounts are integers (no floating point rounding is modelled); an       *)
(* expense's free-text description is never read and is left out.          *)
(*                                                                         *)
(* The page (src/src/App.tsx) is modelled the same way: a call of          *)
(* fetchData is a process, `ui` is what the page has selected and has on   *)
(* display.  The Profile form (src/unnamed/part_003) is modelled by the    *)
(* request bodies it sends.                                                *)
(***************************************************************************)
EXTENDS Integers, Sequences, FiniteSets, TLC

VARIABLES
    variant,          \* "mongo" (part_000) or "sqlite" (part_001)
    counters,         \* Counter collection / sqlite_sequence: type name -> last value
    users,            \* User rows
    categories,       \* Category rows
    expenses,         \* Expense rows
    budgets,          \* Budget rows
    lastInsertRowid,  \* sqlite connection state: rowid of the last successful INSERT
    pc, req, loc,     \* the requests in flight
    last,             \* history: the request answered most recently, with its answer,
                      \*   and `run`: the amounts of the unbroken run of successful
                      \*   upserts of one triple that this answer ends (else empty)
    issued,           \* history: the values getNextId returned, per type, in order
    raced,            \* history: in-flight upserts whose findOne missed while another
                      \* upsert of the same triple that also missed was in flight
    ui                \* App.tsx: currentMonth and the budgets and stats on display

vars == <<variant, counters, users, categories, expenses, budgets,
          lastInsertRowid, pc, req, loc, last, issued, raced, ui>>

store == <<counters, users, categories, expenses, budgets>>

----------------------------------------------------------------------------
(* Bounds and input sets *)

NumProcs == 3

Procs == 1..NumProcs

EntityTypes == {"user", "category", "expense", "budget"}

\* A string is the sequence of its character codes ("-" is 45, "0".."9" are 48..57).
D_2024_05_01 == <<50,48,50,52,45,48,53,45,48,49>>
D_2024_05_02 == <<50,48,50,52,45,48,53,45,48,50>>
D_2024_06_01 == <<50,48,50,52,45,48,54,45,48,49>>
M_2024_05 == <<50,48,50,52,45,48,53>>
M_2024_06 == <<50,48,50,52,45,48,54>>

\* x-user-id header values (1 is the default when the header is absent)
UserIds == {1, 2}
\* The request bodies of the write path.  The concurrency of the write path does
\* not read an expense's amount, category or date, so one value of each is drawn;
\* the aggregation specification draws its ledger from wider sets.
ExpenseCategoryIds == {1}
ExpenseAmounts == {50}
ExpenseDates == {D_2024_05_01}
\* :id values of DELETE /api/expenses/:id
DeleteIds == {1}
\* Budgets of two triples: they differ by the user on the MongoDB server, and by
\* the category on the SQLite server, whose user is fixed.
BudgetCategoryIds(v) == IF v = "mongo" THEN {1} ELSE {1, 2}
BudgetAmounts == {100, 150}
BudgetMonths == {M_2024_05}

NoReq  == [op |-> "none"]
NoLoc  == [k |-> "none"]
NoLast == [req |-> NoReq, resp |-> [status |-> 0], run |-> << >>]
\* No page is open.
NoUi   == [k |-> "none"]

----------------------------------------------------------------------------
(* Seed data: seedDatabase (part_000) / the start-up block (part_001) *)

\* Mutation: the first two defaults change places.
DefaultCategoriesSwapped ==
    << [name |-> "Transport",     color |-> "#3b82f6"],
       [name |-> "Food",          color |-> "#ef4444"],
       [name |-> "Entertainment", color |-> "#a855f7"],
       [name |-> "Shopping",      color |-> "#ec4899"],
       [name |-> "Utilities",     color |-> "#f59e0b"],
       [name |-> "Health",        color |-> "#10b981"],
       [name |-> "Other",         color |-> "#6b7280"] >>

DefaultCategories ==
    << [name |-> "Food",          color |-> "#ef4444"],
       [name |-> "Transport",     color |-> "#3b82f6"],
       [name |-> "Entertainment", color |-> "#a855f7"],
       [name |-> "Shopping",      color |-> "#ec4899"],
       [name |-> "Utilities",     color |-> "#f59e0b"],
       [name |-> "Health",        color |-> "#10b981"],
       [name |-> "Other",         color |-> "#6b7280"] >>

SeededCategories ==
    { [id |-> i, name |-> DefaultCategories[i].name, color |-> DefaultCategories[i].color]
        : i \in 1..Len(DefaultCategories) }

SeededUsers == { [id |-> 1, username |-> "demo", password |-> "password"] }

\* The store after a first boot on an empty database, no request served yet.
Init ==
    /\ variant \in {"mongo", "sqlite"}
    /\ ui = NoUi
    /\ counters = [t \in {"category", "user"} |->
                      IF t = "category" THEN Len(DefaultCategories) ELSE 1]
    /\ users = SeededUsers
    /\ categories = SeededCategories
    /\ expenses = {}
    /\ budgets = {}
    /\ lastInsertRowid = IF variant = "sqlite" THEN 1 ELSE 0
    /\ pc = [p \in Procs |-> "new"]
    /\ req = [p \in Procs |-> NoReq]
    /\ loc = [p \in Procs |-> NoLoc]
    /\ last = NoLast
    /\ issued = [t \in EntityTypes |-> << >>]
    /\ raced = {}

----------------------------------------------------------------------------
(* Sequence allocator *)

\* The counter's value for a type; a type never allocated has no document.
CounterValue(name) == IF name \in DOMAIN counters THEN counters[name] ELSE 0

\* Mutation: the increment skips a value.
NextSeqSkipping(name) == CounterValue(name) + 2

\* findByIdAndUpdate(name, {$inc: {seq: 1}}, {returnDocument: "after", upsert: true}):
\* the value the updated (or upserted) document holds.
NextSeq(name) == CounterValue(name) + 1

\* Mutation: $set where $inc was meant; an existing counter is not advanced.
CountersAfterSet(name) ==
    [t \in DOMAIN counters \cup {name} |->
        IF t \in DOMAIN counters THEN counters[t] ELSE 1]

\* Mutation: the update replaces the collection by the one counter document, so
\* the counters of the other types are lost.
CountersAfterReplace(name) == [t \in {name} |-> CounterValue(name) + 1]

\* The Counter collection after that update.
CountersAfterInc(name) ==
    [t \in DOMAIN counters \cup {name} |-> IF t = name THEN NextSeq(name) ELSE counters[t]]

\* getNextId(name): one atomic database operation.
GetNextId(name) ==
    /\ counters' = CountersAfterInc(name)
    /\ issued' = [issued EXCEPT ![name] = Append(@, CountersAfterInc(name)[name])]

\* `return counter.seq`
GetNextIdResult(name) == CountersAfterInc(name)[name]

\* A request may start only after the requests numbered below it (an ordering of
\* otherwise interchangeable request slots).
CanStart(p) ==
    /\ pc[p] = "new"
    /\ \A q \in Procs : q < p => pc[q] # "new"

SameTriple(r1, r2) ==
    r1.user = r2.user /\ r1.category_id = r2.category_id /\ r1.month = r2.month

\* History only: the run of successful upserts of one triple, extended by rq.
RunAfter(rq, r) ==
    IF rq.op # "upsertBudget" \/ r.status # 200 THEN << >>
    ELSE IF last.run # << >> /\ SameTriple(last.req, rq) THEN Append(last.run, rq.amount)
    ELSE << rq.amount >>

Ok(fields) == [status |-> 200, body |-> fields]

\* res.json(...) (or the uncaught rejection that ends the handler): request rq of
\* slot p is answered with r.
Finish(p, rq, r) ==
    /\ pc' = [pc EXCEPT ![p] = "done"]
    /\ req' = [req EXCEPT ![p] = NoReq]
    /\ loc' = [loc EXCEPT ![p] = NoLoc]
    /\ last' = [req |-> rq, resp |-> r, run |-> RunAfter(rq, r)]
    /\ raced' = raced \ {p}

\* An error thrown in a handler that has no try/catch around it: the request ends
\* with no success answer.
Rejected(err) == [status |-> 500, error |-> err]

----------------------------------------------------------------------------
(* POST /api/expenses *)

ExpenseDoc(id, rq) ==
    [id |-> id, user_id |-> rq.user, amount |-> rq.amount,
     category_id |-> rq.category_id, date |-> rq.date]

\* MongoDB: const expenseId = await getNextId("expense")
AddExpense_GetNextId(p) ==
    /\ variant = "mongo"
    /\ CanStart(p)
    /\ \E u \in UserIds, a \in ExpenseAmounts, c \in ExpenseCategoryIds, d \in ExpenseDates :
          req' = [req EXCEPT ![p] = [op |-> "addExpense", user |-> u, amount |-> a,
                                     category_id |-> c, date |-> d]]
    /\ GetNextId("expense")
    /\ loc' = [loc EXCEPT ![p] = [k |-> "id", id |-> GetNextIdResult("expense")]]
    /\ pc' = [pc EXCEPT ![p] = "addExpense_create"]
    /\ UNCHANGED <<variant, ui, users, categories, expenses, budgets, lastInsertRowid,
                   last, raced>>

\* expenseSchema: id unique
ExpenseInsertAllowed(doc) == \A e \in expenses : e.id # doc.id

\* MongoDB: await ExpenseModel.create({...}); res.json({ id: expenseId })
AddExpense_Create(p) ==
    /\ variant = "mongo"
    /\ pc[p] = "addExpense_create"
    /\ LET doc == ExpenseDoc(loc[p].id, req[p])
       IN IF ExpenseInsertAllowed(doc)
          THEN /\ expenses' = expenses \cup {doc}
               /\ Finish(p, req[p], Ok([id |-> doc.id]))
          ELSE /\ expenses' = expenses
               /\ Finish(p, req[p], Rejected("E11000"))
    /\ UNCHANGED <<variant, ui, counters, users, categories, budgets, lastInsertRowid, issued>>

----------------------------------------------------------------------------
(* DELETE /api/expenses/:id *)

\* Mutation: the owner is not part of the filter.
ExpensesAfterDeleteById(id, u) == { e \in expenses : e.id # id }

\* deleteOne({ id, user_id }) / DELETE FROM expenses WHERE id = ? AND user_id = ?
ExpensesAfterDelete(id, u) == { e \in expenses : ~(e.id = id /\ e.user_id = u) }

\* MongoDB: await ExpenseModel.deleteOne({...}); res.json({ success: true })
DeleteExpense(p) ==
    /\ variant = "mongo"
    /\ CanStart(p)
    /\ \E u \in UserIds, id \in DeleteIds :
          /\ expenses' = ExpensesAfterDelete(id, u)
          /\ Finish(p, [op |-> "deleteExpense", user |-> u, id |-> id],
                    Ok([success |-> TRUE]))
    /\ UNCHANGED <<variant, ui, counters, users, categories, budgets, lastInsertRowid, issued>>

----------------------------------------------------------------------------
(* POST /api/budgets *)

\* The rows of B that a filter { user_id, category_id, month } selects.
TripleRows(B, u, c, m) == { b \in B : b.user_id = u /\ b.category_id = c /\ b.month = m }

BudgetsOf(u, c, m) == TripleRows(budgets, u, c, m)

BudgetDoc(id, rq) ==
    [id |-> id, user_id |-> rq.user, category_id |-> rq.category_id,
     amount |-> rq.amount, month |-> rq.month]

\* The upserts in flight that found no budget for the triple of rq.
MissedInFlight(rq) ==
    { q \in Procs : /\ pc[q] \in {"upsertBudget_getNextId", "upsertBudget_create"}
                    /\ SameTriple(req[q], rq) }

\* MongoDB: const existing = await BudgetModel.findOne({ user_id, category_id, month })
UpsertBudget_FindOne(p) ==
    /\ variant = "mongo"
    /\ CanStart(p)
    /\ \E u \in UserIds, c \in BudgetCategoryIds(variant), a \in BudgetAmounts, m \in BudgetMonths :
          LET rq == [op |-> "upsertBudget", user |-> u, category_id |-> c,
                     amount |-> a, month |-> m]
          IN /\ req' = [req EXCEPT ![p] = rq]
             /\ IF BudgetsOf(u, c, m) = {}
                THEN /\ loc' = [loc EXCEPT ![p] = [k |-> "null"]]
                     /\ pc' = [pc EXCEPT ![p] = "upsertBudget_getNextId"]
                     /\ raced' = IF MissedInFlight(rq) = {} THEN raced
                                 ELSE raced \cup MissedInFlight(rq) \cup {p}
                ELSE /\ \E b \in BudgetsOf(u, c, m) :
                           loc' = [loc EXCEPT ![p] = [k |-> "existing", doc |-> b]]
                     /\ pc' = [pc EXCEPT ![p] = "upsertBudget_save"]
                     /\ raced' = raced
    /\ UNCHANGED <<variant, ui, counters, users, categories, expenses, budgets,
                   lastInsertRowid, last, issued>>

\* Mutation: the changed amount is not written back.
BudgetsAfterSaveLost(doc, amount) == budgets

\* The collection after `existing.amount = amount; await existing.save()`: the
\* document is addressed by its identity (its id is unique and never reissued).
BudgetsAfterSave(doc, amount) ==
    { IF b.id = doc.id THEN [b EXCEPT !.amount = amount] ELSE b : b \in budgets }

\* MongoDB, existing found: existing.amount = amount; await existing.save();
\* res.json({ id: existing.id }).  save() sends no update when the amount is the
\* one that was read; otherwise it updates by document identity and rejects
\* (DocumentNotFoundError, not caught by the handler) when the document is gone.
UpsertBudget_Save(p) ==
    /\ variant = "mongo"
    /\ pc[p] = "upsertBudget_save"
    /\ LET doc == loc[p].doc
       IN IF doc.amount = req[p].amount
          THEN /\ budgets' = budgets
               /\ Finish(p, req[p], Ok([id |-> doc.id]))
          ELSE IF \E b \in budgets : b.id = doc.id
          THEN /\ budgets' = BudgetsAfterSave(doc, req[p].amount)
               /\ Finish(p, req[p], Ok([id |-> doc.id]))
          ELSE /\ budgets' = budgets
               /\ Finish(p, req[p], Rejected("DocumentNotFoundError"))
    /\ UNCHANGED <<variant, ui, counters, users, categories, expenses, lastInsertRowid, issued>>

\* MongoDB, none found: const budgetId = await getNextId("budget")
UpsertBudget_GetNextId(p) ==
    /\ variant = "mongo"
    /\ pc[p] = "upsertBudget_getNextId"
    /\ GetNextId("budget")
    /\ loc' = [loc EXCEPT ![p] = [k |-> "id", id |-> GetNextIdResult("budget")]]
    /\ pc' = [pc EXCEPT ![p] = "upsertBudget_create"]
    /\ UNCHANGED <<variant, ui, users, categories, expenses, budgets, lastInsertRowid,
                   req, last, raced>>

\* Mutation: the compound unique index is missing.
BudgetInsertAllowedNoIndex(doc) == \A b \in budgets : b.id # doc.id

\* budgetSchema: id unique; index { user_id, category_id, month } unique
BudgetInsertAllowed(doc) ==
    /\ \A b \in budgets : b.id # doc.id
    /\ BudgetsOf(doc.user_id, doc.category_id, doc.month) = {}

\* MongoDB: await BudgetModel.create({...}); res.json({ id: budgetId }).  A
\* duplicate key (E11000) rejects the create, and nothing catches it.
UpsertBudget_Create(p) ==
    /\ variant = "mongo"
    /\ pc[p] = "upsertBudget_create"
    /\ LET doc == BudgetDoc(loc[p].id, req[p])
       IN IF BudgetInsertAllowed(doc)
          THEN /\ budgets' = budgets \cup {doc}
               /\ Finish(p, req[p], Ok([id |-> doc.id]))
          ELSE /\ budgets' = budgets
               /\ Finish(p, req[p], Rejected("E11000"))
    /\ UNCHANGED <<variant, ui, counters, users, categories, expenses, lastInsertRowid, issued>>

----------------------------------------------------------------------------
(* DELETE /api/user/profile *)

\* Mutation: deleteMany({}) without the user filter.
DeleteUser_ExpensesOfAll(p) ==
    /\ variant = "mongo"
    /\ CanStart(p)
    /\ \E u \in UserIds :
          /\ req' = [req EXCEPT ![p] = [op |-> "deleteUser", user |-> u]]
          /\ expenses' = {}
    /\ pc' = [pc EXCEPT ![p] = "deleteUser_budgets"]
    /\ UNCHANGED <<variant, ui, counters, users, categories, budgets, lastInsertRowid,
                   loc, last, issued, raced>>

\* MongoDB: await ExpenseModel.deleteMany({ user_id: currentUser })
DeleteUser_Expenses(p) ==
    /\ variant = "mongo"
    /\ CanStart(p)
    /\ \E u \in UserIds :
          /\ req' = [req EXCEPT ![p] = [op |-> "deleteUser", user |-> u]]
          /\ expenses' = { e \in expenses : e.user_id # u }
    /\ pc' = [pc EXCEPT ![p] = "deleteUser_budgets"]
    /\ UNCHANGED <<variant, ui, counters, users, categories, budgets, lastInsertRowid,
                   loc, last, issued, raced>>

\* MongoDB: await BudgetModel.deleteMany({ user_id: currentUser })
DeleteUser_Budgets(p) ==
    /\ variant = "mongo"
    /\ pc[p] = "deleteUser_budgets"
    /\ budgets' = { b \in budgets : b.user_id # req[p].user }
    /\ pc' = [pc EXCEPT ![p] = "deleteUser_user"]
    /\ UNCHANGED <<variant, ui, counters, users, categories, expenses, lastInsertRowid,
                   req, loc, last, issued, raced>>

\* MongoDB: await UserModel.deleteOne({ id: currentUser }); res.json({ success: true, ... })
DeleteUser_User(p) ==
    /\ variant = "mongo"
    /\ pc[p] = "deleteUser_user"
    /\ users' = { x \in users : x.id # req[p].user }
    /\ Finish(p, req[p], Ok([success |-> TRUE]))
    /\ UNCHANGED <<variant, ui, counters, categories, expenses, budgets, lastInsertRowid, issued>>

----------------------------------------------------------------------------
(* The SQLite server: every handler is one synchronous step, as user 1. *)

currentUser == 1

\* INTEGER PRIMARY KEY AUTOINCREMENT: one more than the largest rowid the table
\* ever held (sqlite_sequence, kept in `counters` under the entity type's name).
NewRowid(type, rows) ==
    LET used == {CounterValue(type)} \cup { r.id : r \in rows }
    IN (CHOOSE m \in used : \A x \in used : x <= m) + 1

\* NULL in an INTEGER column (a JSON null of the request body, bound as NULL): it
\* equals no id, and 0 is the id of no row.
SqlNull == 0

\* FOREIGN KEY(user_id) REFERENCES users(id), FOREIGN KEY(category_id) REFERENCES
\* categories(id); better-sqlite3 enforces foreign keys by default.  A NULL child
\* key needs no parent row.
ForeignKeysHold(row) ==
    /\ \E u \in users : u.id = row.user_id
    /\ row.category_id = SqlNull \/ \E c \in categories : c.id = row.category_id

\* INSERT INTO expenses (...) VALUES (...); res.json({ id: result.lastInsertRowid })
SqlAddExpense(p) ==
    /\ variant = "sqlite"
    /\ CanStart(p)
    /\ \E a \in ExpenseAmounts, c \in ExpenseCategoryIds, d \in ExpenseDates :
          LET rq  == [op |-> "addExpense", user |-> currentUser, amount |-> a,
                      category_id |-> c, date |-> d]
              row == ExpenseDoc(NewRowid("expense", expenses), rq)
          IN IF ForeignKeysHold(row)
             THEN /\ expenses' = expenses \cup {row}
                  /\ counters' = [t \in DOMAIN counters \cup {"expense"} |->
                                     IF t = "expense" THEN row.id ELSE counters[t]]
                  /\ lastInsertRowid' = row.id
                  /\ Finish(p, rq, Ok([id |-> row.id]))
             ELSE /\ UNCHANGED <<expenses, counters, lastInsertRowid>>
                  /\ Finish(p, rq, Rejected("SQLITE_CONSTRAINT_FOREIGNKEY"))
    /\ UNCHANGED <<variant, ui, users, categories, budgets, issued>>

\* DELETE FROM expenses WHERE id = ? AND user_id = ?; res.json({ success: true })
SqlDeleteExpense(p) ==
    /\ variant = "sqlite"
    /\ CanStart(p)
    /\ \E id \in DeleteIds :
          /\ expenses' = ExpensesAfterDelete(id, currentUser)
          /\ Finish(p, [op |-> "deleteExpense", user |-> currentUser, id |-> id],
                    Ok([success |-> TRUE]))
    /\ UNCHANGED <<variant, ui, counters, users, categories, budgets, lastInsertRowid, issued>>

\* The budgets table after ON CONFLICT(user_id, category_id, month) DO UPDATE SET
\* amount = excluded.amount
BudgetsAfterConflictUpdate(rq) ==
    { IF b \in BudgetsOf(rq.user, rq.category_id, rq.month)
      THEN [b EXCEPT !.amount = rq.amount] ELSE b : b \in budgets }

\* INSERT INTO budgets (...) VALUES (...) ON CONFLICT(user_id, category_id, month)
\* DO UPDATE SET amount = excluded.amount; res.json({ id: result.lastInsertRowid }).
\* The rowid is generated before the conflict is detected, so sqlite_sequence
\* advances on either path; lastInsertRowid changes only when a row is inserted.
SqlUpsertBudget(p) ==
    /\ variant = "sqlite"
    /\ CanStart(p)
    /\ \E c \in BudgetCategoryIds(variant), a \in BudgetAmounts, m \in BudgetMonths :
          LET rq  == [op |-> "upsertBudget", user |-> currentUser, category_id |-> c,
                      amount |-> a, month |-> m]
              row == BudgetDoc(NewRowid("budget", budgets), rq)
          IN IF ~ForeignKeysHold(row)
             THEN /\ UNCHANGED <<budgets, counters, lastInsertRowid>>
                  /\ Finish(p, rq, Rejected("SQLITE_CONSTRAINT_FOREIGNKEY"))
             ELSE /\ counters' = [t \in DOMAIN counters \cup {"budget"} |->
                                     IF t = "budget" THEN row.id ELSE counters[t]]
                  /\ IF BudgetsOf(currentUser, c, m) = {}
                     THEN /\ budgets' = budgets \cup {row}
                          /\ lastInsertRowid' = row.id
                          /\ Finish(p, rq, Ok([id |-> row.id]))
                     ELSE /\ budgets' = BudgetsAfterConflictUpdate(rq)
                          /\ lastInsertRowid' = lastInsertRowid
                          /\ Finish(p, rq, Ok([id |-> lastInsertRowid]))
    /\ UNCHANGED <<variant, ui, users, categories, expenses, issued>>

----------------------------------------------------------------------------
(* GET /api/stats/summary *)
(* The handler reads the ledger and writes nothing.  ?month= is always given *)
(* (its default, the current month, would read the clock).                   *)

StatsMonths == {M_2024_05, M_2024_06}

\* { date: { $regex: new RegExp(`^${month}`) } }: the date begins with month (a
\* month made of digits and "-" holds no regular-expression metacharacter).
StartsWith(s, prefix) ==
    /\ Len(s) >= Len(prefix)
    /\ SubSeq(s, 1, Len(prefix)) = prefix

IsDigit(c) == c \in 48..57

TwoDigits(s, i) == (s[i] - 48) * 10 + (s[i + 1] - 48)

\* The text form YYYY-MM-DD of a date that sqlite's date functions accept.
\* (A day past the end of its month, which sqlite carries into the next month,
\* is in none of the inputs drawn here.)
IsIsoDate(s) ==
    /\ Len(s) = 10
    /\ s[5] = 45 /\ s[8] = 45
    /\ \A i \in {1, 2, 3, 4, 6, 7, 9, 10} : IsDigit(s[i])
    /\ TwoDigits(s, 6) \in 1..12
    /\ TwoDigits(s, 9) \in 1..31

\* strftime('%Y-%m', date) of a YYYY-MM-DD text: its year and month; NULL (here the
\* empty string, which no month equals) when the text is no date.
Strftime_Ym(date) == IF IsIsoDate(date) THEN SubSeq(date, 1, 7) ELSE << >>

\* Mutation: the match leaves the month out.
MatchUserAnyMonth(E, u, month) == { e \in E : e.user_id = u }

\* $match { user_id: currentUser, date: { $regex: monthRegex } }
MatchUserMonth(E, u, month) ==
    { e \in E : e.user_id = u /\ StartsWith(e.date, month) }

\* WHERE user_id = ? AND strftime('%Y-%m', date) = ?
WhereUserMonth(E, u, month) ==
    { e \in E : e.user_id = u /\ Strftime_Ym(e.date) # << >> /\ Strftime_Ym(e.date) = month }

\* { $sum: "$amount" } / SUM(amount) over a group of rows
RECURSIVE SumAmount(_)
SumAmount(rows) ==
    IF rows = {} THEN 0
    ELSE LET e == CHOOSE x \in rows : TRUE
         IN e.amount + SumAmount(rows \ {e})

\* Mutation: the amount of one matching row is reported, not the sum.
TotalSpentOfOne(rows) == IF rows = {} THEN 0 ELSE (CHOOSE x \in rows : TRUE).amount

\* totalResult.length > 0 ? totalResult[0].total : 0  /  totalSpent.total || 0
TotalSpent(rows) == IF rows = {} THEN 0 ELSE SumAmount(rows)

\* Mutation: $sum: 1, the number of expenses of the category.
GroupByCategoryCounting(rows) ==
    { [_id |-> c, value |-> Cardinality({ e \in rows : e.category_id = c })]
        : c \in { e.category_id : e \in rows } }

\* $group { _id: "$category_id", value: { $sum: "$amount" } }
GroupByCategory(rows) ==
    { [_id |-> c, value |-> SumAmount({ e \in rows : e.category_id = c })]
        : c \in { e.category_id : e \in rows } }

\* The results of a query that names no order, in any order.
InAnyOrder(S) ==
    { s \in [1..Cardinality(S) -> S] : \A i, j \in DOMAIN s : i # j => s[i] # s[j] }

\* catMap.get(c._id)?.name || "Unknown", catMap.get(c._id)?.color || "#6b7280"
CategoryBreakdownEntry(c, found) ==
    IF \E k \in found : k.id = c._id
    THEN LET k == CHOOSE k \in found : k.id = c._id
         IN [name |-> k.name, value |-> c.value, color |-> k.color]
    ELSE [name |-> "Unknown", value |-> c.value, color |-> "#6b7280"]

\* SELECT c.name, SUM(e.amount) as value, c.color FROM expenses e JOIN categories c
\* ON e.category_id = c.id ... GROUP BY c.id
JoinGroupByCategory(rows) ==
    { [name |-> c.name, value |-> SumAmount({ e \in rows : e.category_id = c.id }),
       color |-> c.color]
        : c \in { k \in categories : \E e \in rows : e.category_id = k.id } }

\* $group { _id: "$date", amount: { $sum: "$amount" } }  /  GROUP BY date
GroupByDate(rows) ==
    { [_id |-> d, amount |-> SumAmount({ e \in rows : e.date = d })]
        : d \in { e.date : e \in rows } }

\* The order of strings in a $sort and in ORDER BY (binary collation): by the
\* first character that differs, a proper prefix first.
RECURSIVE StringLess(_, _)
StringLess(a, b) ==
    IF a = << >> THEN b # << >>
    ELSE IF b = << >> THEN FALSE
    ELSE IF Head(a) # Head(b) THEN Head(a) < Head(b)
    ELSE StringLess(Tail(a), Tail(b))

\* Mutation: the groups sorted the other way round ({ _id: -1 } / DESC).
RECURSIVE SortByIdDescending(_)
SortByIdDescending(groups) ==
    IF groups = {} THEN << >>
    ELSE LET g == CHOOSE x \in groups : \A y \in groups \ {x} : StringLess(y._id, x._id)
         IN << g >> \o SortByIdDescending(groups \ {g})

\* $sort { _id: 1 }  /  ORDER BY date ASC
RECURSIVE SortById(_)
SortById(groups) ==
    IF groups = {} THEN << >>
    ELSE LET g == CHOOSE x \in groups : \A y \in groups \ {x} : StringLess(x._id, y._id)
         IN << g >> \o SortById(groups \ {g})

\* $project { _id: 0, date: "$_id", amount: 1 }  /  SELECT date, SUM(amount) as amount
ProjectDateAmount(sorted) ==
    [i \in DOMAIN sorted |-> [date |-> sorted[i]._id, amount |-> sorted[i].amount]]

\* The dailySpending pipeline over the rows the match selects.
DailySpending(rows) == ProjectDateAmount(SortById(GroupByDate(rows)))

StatsRequest(u, month) == [op |-> "stats", user |-> u, month |-> month]

\* totalResult = await ExpenseModel.aggregate([...])
Stats_Total(p) ==
    /\ variant = "mongo"
    /\ CanStart(p)
    /\ \E u \in UserIds, month \in StatsMonths :
          /\ req' = [req EXCEPT ![p] = StatsRequest(u, month)]
          /\ loc' = [loc EXCEPT ![p] =
                        [k |-> "total",
                         totalSpent |-> TotalSpent(MatchUserMonth(expenses, u, month))]]
    /\ pc' = [pc EXCEPT ![p] = "stats_categoryBreakdownRaw"]
    /\ UNCHANGED <<variant, ui, store, lastInsertRowid, last, issued, raced>>

\* categoryBreakdownRaw = await ExpenseModel.aggregate([...])
Stats_CategoryBreakdownRaw(p) ==
    /\ pc[p] = "stats_categoryBreakdownRaw"
    /\ \E raw \in InAnyOrder(GroupByCategory(
                      MatchUserMonth(expenses, req[p].user, req[p].month))) :
          loc' = [loc EXCEPT ![p] =
                     [k |-> "raw", totalSpent |-> loc[p].totalSpent,
                      categoryBreakdownRaw |-> raw]]
    /\ pc' = [pc EXCEPT ![p] = "stats_categories"]
    /\ UNCHANGED <<variant, ui, store, lastInsertRowid, req, last, issued, raced>>

\* categories = await CategoryModel.find({ id: { $in: catIds } }).lean(), and the
\* map of the raw groups to { name, value, color }
Stats_Categories(p) ==
    /\ pc[p] = "stats_categories"
    /\ LET raw    == loc[p].categoryBreakdownRaw
           catIds == { raw[i]._id : i \in DOMAIN raw }
           found  == { c \in categories : c.id \in catIds }
       IN loc' = [loc EXCEPT ![p] =
                     [k |-> "breakdown", totalSpent |-> loc[p].totalSpent,
                      categoryBreakdown |->
                          [i \in DOMAIN raw |-> CategoryBreakdownEntry(raw[i], found)]]]
    /\ pc' = [pc EXCEPT ![p] = "stats_dailySpending"]
    /\ UNCHANGED <<variant, ui, store, lastInsertRowid, req, last, issued, raced>>

\* dailySpending = await ExpenseModel.aggregate([...]); res.json({...})
Stats_DailySpending(p) ==
    /\ pc[p] = "stats_dailySpending"
    /\ Finish(p, req[p],
              Ok([totalSpent        |-> loc[p].totalSpent,
                  categoryBreakdown |-> loc[p].categoryBreakdown,
                  dailySpending     |-> DailySpending(
                      MatchUserMonth(expenses, req[p].user, req[p].month))]))
    /\ UNCHANGED <<variant, ui, store, lastInsertRowid, issued>>

\* The SQLite handler: three SELECTs and res.json in one synchronous step.
SqlStats(p) ==
    /\ variant = "sqlite"
    /\ CanStart(p)
    /\ \E month \in StatsMonths :
          LET rows == WhereUserMonth(expenses, currentUser, month)
          IN \E breakdown \in InAnyOrder(JoinGroupByCategory(rows)) :
                Finish(p, StatsRequest(currentUser, month),
                       Ok([totalSpent        |-> TotalSpent(rows),
                           categoryBreakdown |-> breakdown,
                           dailySpending     |-> DailySpending(rows)]))
    /\ UNCHANGED <<variant, ui, store, lastInsertRowid, issued>>

----------------------------------------------------------------------------
(* GET /api/expenses *)

\* .sort({ date: -1 }) / ORDER BY e.date DESC: the rows in an order of descending
\* date; the order of the rows of one date is not determined.
SortByDateDescending(rows) ==
    { s \in InAnyOrder(rows) :
         \A i \in 1..(Len(s) - 1) : ~StringLess(s[i].date, s[i + 1].date) }

\* The entry of the MongoDB listing for expense e, cat being catMap.get(e.category_id)
\* (the empty set when the map has no such key).
ListedExpense(e, cat) ==
    [id |-> e.id, amount |-> e.amount, category_id |-> e.category_id,
     category_name  |-> IF cat = {} THEN "Unknown" ELSE (CHOOSE k \in cat : TRUE).name,
     category_color |-> IF cat = {} THEN "#6b7280" ELSE (CHOOSE k \in cat : TRUE).color,
     date |-> e.date]

\* SELECT e.*, c.name as category_name, c.color as category_color FROM expenses e
\* JOIN categories c ON e.category_id = c.id WHERE e.user_id = ?: one row per pair
\* of an expense of the user and the category it names.
JoinCategories(E, u) ==
    { [id |-> e.id, user_id |-> e.user_id, amount |-> e.amount,
       category_id |-> e.category_id, date |-> e.date,
       category_name |-> c.name, category_color |-> c.color]
        : <<e, c>> \in { x \in E \X categories :
                            x[1].user_id = u /\ x[1].category_id = x[2].id } }

ListRequest(u) == [op |-> "listExpenses", user |-> u]

\* expenses = await ExpenseModel.find({ user_id: currentUser }).sort({ date: -1 }).lean()
ListExpenses_Find(p) ==
    /\ variant = "mongo"
    /\ CanStart(p)
    /\ \E u \in UserIds :
          \E found \in SortByDateDescending({ e \in expenses : e.user_id = u }) :
             /\ req' = [req EXCEPT ![p] = ListRequest(u)]
             /\ loc' = [loc EXCEPT ![p] = [k |-> "expenses", expenses |-> found]]
    /\ pc' = [pc EXCEPT ![p] = "listExpenses_categories"]
    /\ UNCHANGED <<variant, ui, store, lastInsertRowid, last, issued, raced>>

\* categories = await CategoryModel.find({ id: { $in: categoryIds } }).lean(), the
\* map of the expenses to the listing's entries, res.json(result)
ListExpenses_Categories(p) ==
    /\ pc[p] = "listExpenses_categories"
    /\ LET found       == loc[p].expenses
           categoryIds == { found[i].category_id : i \in DOMAIN found }
           catMap      == { c \in categories : c.id \in categoryIds }
       IN Finish(p, req[p],
                 Ok([i \in DOMAIN found |->
                        ListedExpense(found[i],
                                      { c \in catMap : c.id = found[i].category_id })]))
    /\ UNCHANGED <<variant, ui, store, lastInsertRowid, issued>>

\* The SQLite handler: the SELECT and res.json(expenses) in one synchronous step.
SqlListExpenses(p) ==
    /\ variant = "sqlite"
    /\ CanStart(p)
    /\ \E listed \in SortByDateDescending(JoinCategories(expenses, currentUser)) :
          Finish(p, ListRequest(currentUser), Ok(listed))
    /\ UNCHANGED <<variant, ui, store, lastInsertRowid, issued>>

----------------------------------------------------------------------------
(* Start-up seeding and the user accounts *)
(* seedDatabase runs once per start of the MongoDB server, after the        *)
(* connection is made and without the server waiting for it, so its         *)
(* database calls interleave with those of the requests; it takes the       *)
(* lowest slot.  The SQLite server seeds while the module loads, before it  *)
(* serves a request.  A User's email, phone and created_at are never read   *)
(* and are left out.                                                        *)

BootProc(p) == \A q \in Procs : p <= q

\* A request starts after the requests numbered below it; the start-up task is
\* no request.
CanStartRequest(p) ==
    /\ pc[p] = "new"
    /\ ~BootProc(p)
    /\ \A q \in Procs : (q < p /\ ~BootProc(q)) => pc[q] # "new"

\* History only: `fresh` records that the run began on a store with no category
\* and no user.
SeedRequest == [op |-> "seed", fresh |-> categories = {} /\ users = {}]

\* An error answer: res.status(status).json({ success: false, message })
Failure(status, message) ==
    [status |-> status, body |-> [success |-> FALSE, message |-> message]]

\* Mutation: countDocuments() is not consulted, the defaults are always created.
CountIsZeroAlways(rows) == TRUE

\* (await Model.countDocuments()) === 0  /  SELECT COUNT(*) ... count === 0
CountIsZero(rows) == Cardinality(rows) = 0

\* categorySchema: id unique, name unique
CategoryInsertAllowed(doc) ==
    \A c \in categories : c.id # doc.id /\ c.name # doc.name

\* Mutation: the username carries no unique index.
UserInsertAllowedNoIndex(doc) == \A u \in users : u.id # doc.id

\* userSchema: id unique, username unique
UserInsertAllowed(doc) ==
    \A u \in users : u.id # doc.id /\ u.username # doc.username

DemoUser(id) == [id |-> id, username |-> "demo", password |-> "password"]

\* const categoryCount = await CategoryModel.countDocuments()
Seed_CountCategories(p) ==
    /\ variant = "mongo"
    /\ BootProc(p) /\ pc[p] = "new"
    /\ req' = [req EXCEPT ![p] = SeedRequest]
    /\ IF CountIsZero(categories)
       THEN /\ loc' = [loc EXCEPT ![p] = [k |-> "cat", i |-> 1]]
            /\ pc' = [pc EXCEPT ![p] = "seed_categoryId"]
       ELSE /\ loc' = loc
            /\ pc' = [pc EXCEPT ![p] = "seed_countUsers"]
    /\ UNCHANGED <<variant, ui, store, lastInsertRowid, last, issued, raced>>

\* const catId = await getNextId("category")
Seed_CategoryId(p) ==
    /\ pc[p] = "seed_categoryId"
    /\ GetNextId("category")
    /\ loc' = [loc EXCEPT ![p] = [k |-> "catId", i |-> loc[p].i,
                                  catId |-> GetNextIdResult("category")]]
    /\ pc' = [pc EXCEPT ![p] = "seed_createCategory"]
    /\ UNCHANGED <<variant, ui, users, categories, expenses, budgets, lastInsertRowid,
                   req, last, raced>>

\* await CategoryModel.create({ id: catId, ...cat }), and the loop's next round;
\* a rejected create ends seedDatabase (startServer logs the error).
Seed_CreateCategory(p) ==
    /\ pc[p] = "seed_createCategory"
    /\ LET doc == [id |-> loc[p].catId, name |-> DefaultCategories[loc[p].i].name,
                   color |-> DefaultCategories[loc[p].i].color]
       IN IF ~CategoryInsertAllowed(doc)
          THEN /\ categories' = categories
               /\ Finish(p, req[p], Rejected("E11000"))
          ELSE /\ categories' = categories \cup {doc}
               /\ IF loc[p].i < Len(DefaultCategories)
                  THEN /\ loc' = [loc EXCEPT ![p] = [k |-> "cat", i |-> loc[p].i + 1]]
                       /\ pc' = [pc EXCEPT ![p] = "seed_categoryId"]
                  ELSE /\ loc' = [loc EXCEPT ![p] = NoLoc]
                       /\ pc' = [pc EXCEPT ![p] = "seed_countUsers"]
               /\ UNCHANGED <<req, last, raced>>
    /\ UNCHANGED <<variant, ui, counters, users, expenses, budgets, lastInsertRowid, issued>>

\* const userCount = await UserModel.countDocuments()
Seed_CountUsers(p) ==
    /\ pc[p] = "seed_countUsers"
    /\ IF CountIsZero(users)
       THEN /\ pc' = [pc EXCEPT ![p] = "seed_userId"]
            /\ UNCHANGED <<req, loc, last, raced>>
       ELSE Finish(p, req[p], Ok([seeded |-> TRUE]))
    /\ UNCHANGED <<variant, ui, store, lastInsertRowid, issued>>

\* const userId = await getNextId("user")
Seed_UserId(p) ==
    /\ pc[p] = "seed_userId"
    /\ GetNextId("user")
    /\ loc' = [loc EXCEPT ![p] = [k |-> "userId", userId |-> GetNextIdResult("user")]]
    /\ pc' = [pc EXCEPT ![p] = "seed_createUser"]
    /\ UNCHANGED <<variant, ui, users, categories, expenses, budgets, lastInsertRowid,
                   req, last, raced>>

\* await UserModel.create({ id: userId, username: "demo", password: "password" })
Seed_CreateUser(p) ==
    /\ pc[p] = "seed_createUser"
    /\ IF UserInsertAllowed(DemoUser(loc[p].userId))
       THEN /\ users' = users \cup {DemoUser(loc[p].userId)}
            /\ Finish(p, req[p], Ok([seeded |-> TRUE]))
       ELSE /\ users' = users
            /\ Finish(p, req[p], Rejected("E11000"))
    /\ UNCHANGED <<variant, ui, counters, categories, expenses, budgets, lastInsertRowid,
                   issued>>

\* The counters (sqlite_sequence) after an INSERT gave a row of the type the id.
CountersAfterInsert(type, id) ==
    [t \in DOMAIN counters \cup {type} |-> IF t = type THEN id ELSE counters[t]]

\* SQLite: the categories are counted and the defaults inserted in one
\* synchronous block; the rowids follow one another.
SqlSeed_Categories(p) ==
    /\ variant = "sqlite"
    /\ BootProc(p) /\ pc[p] = "new"
    /\ req' = [req EXCEPT ![p] = SeedRequest]
    /\ pc' = [pc EXCEPT ![p] = "sqlSeed_user"]
    /\ IF CountIsZero(categories)
       THEN LET first == NewRowid("category", categories)
                final == first + Len(DefaultCategories) - 1
            IN /\ categories' =
                     { [id |-> first + i - 1, name |-> DefaultCategories[i].name,
                        color |-> DefaultCategories[i].color]
                         : i \in 1..Len(DefaultCategories) }
               /\ counters' = CountersAfterInsert("category", final)
               /\ lastInsertRowid' = final
       ELSE UNCHANGED <<categories, counters, lastInsertRowid>>
    /\ UNCHANGED <<variant, ui, users, expenses, budgets, loc, last, issued, raced>>

\* SQLite: the users are counted and the demo user inserted.
SqlSeed_User(p) ==
    /\ pc[p] = "sqlSeed_user"
    /\ IF CountIsZero(users)
       THEN /\ users' = {DemoUser(NewRowid("user", users))}
            /\ counters' = CountersAfterInsert("user", NewRowid("user", users))
            /\ lastInsertRowid' = NewRowid("user", users)
       ELSE UNCHANGED <<users, counters, lastInsertRowid>>
    /\ Finish(p, req[p], Ok([seeded |-> TRUE]))
    /\ UNCHANGED <<variant, ui, categories, expenses, budgets, issued>>

\* The bodies of the account requests; "" is a field that is missing (or empty:
\* both are falsy in the handlers' checks).
SignupBodies ==
    { [username |-> "",      password |-> "password"],
      [username |-> "alice", password |-> ""],
      [username |-> "alice", password |-> "password"],
      [username |-> "demo",  password |-> "password"] }

LoginBodies ==
    { [username |-> "",     password |-> "password"],
      [username |-> "demo", password |-> ""],
      [username |-> "demo", password |-> "password"],
      [username |-> "demo", password |-> "secret"] }

ProfileUsernames == {"", "alice", "demo"}

ChangePasswordBodies ==
    { [oldPassword |-> "",         newPassword |-> "secret"],
      [oldPassword |-> "password", newPassword |-> ""],
      [oldPassword |-> "password", newPassword |-> "secret"],
      [oldPassword |-> "password", newPassword |-> "letmein"],
      [oldPassword |-> "secret",   newPassword |-> "password"] }

\* What the user typed into the Profile form's three password fields.
ProfileFormInputs ==
    { [currentPassword |-> "password", newPassword |-> n, confirmPassword |-> c]
        : n \in {"abc", "secret"}, c \in {"abc", "secret"} }

\* handleChangePassword: no request unless the new password is typed twice alike
\* and has six characters or more; the body is
\* JSON.stringify({ currentPassword, newPassword }).
ProfileFormBodies ==
    { [currentPassword |-> in.currentPassword, newPassword |-> in.newPassword]
        : in \in { x \in ProfileFormInputs :
                      x.newPassword = x.confirmPassword /\ Len(x.newPassword) >= 6 } }

\* const { a, b } = req.body: a field the body lacks is undefined, which the
\* checks treat as the empty string.
Field(body, name) == IF name \in DOMAIN body THEN body[name] ELSE ""

\* Mutation: the check of the required fields is left out.
HasBothNoCheck(a, b) == TRUE

\* !(!a || !b): both fields are there
HasBoth(a, b) == a # "" /\ b # ""

\* POST /api/signup: the check of the body, then const userId = await getNextId("user")
Signup_GetNextId(p) ==
    /\ variant = "mongo"
    /\ CanStartRequest(p)
    /\ \E body \in SignupBodies :
          LET rq == [op |-> "signup", username |-> body.username,
                     password |-> body.password]
          IN IF ~HasBoth(body.username, body.password)
             THEN /\ Finish(p, rq, Failure(400, "Missing username or password"))
                  /\ UNCHANGED <<counters, issued>>
             ELSE /\ GetNextId("user")
                  /\ req' = [req EXCEPT ![p] = rq]
                  /\ loc' = [loc EXCEPT ![p] =
                                [k |-> "userId", userId |-> GetNextIdResult("user")]]
                  /\ pc' = [pc EXCEPT ![p] = "signup_create"]
                  /\ UNCHANGED <<last, raced>>
    /\ UNCHANGED <<variant, ui, users, categories, expenses, budgets, lastInsertRowid>>

\* await UserModel.create({ id: userId, username, password }); err.code === 11000
\* is answered 409
Signup_Create(p) ==
    /\ pc[p] = "signup_create"
    /\ LET doc == [id |-> loc[p].userId, username |-> req[p].username,
                   password |-> req[p].password]
       IN IF UserInsertAllowed(doc)
          THEN /\ users' = users \cup {doc}
               /\ Finish(p, req[p], Ok([success |-> TRUE, userId |-> doc.id]))
          ELSE /\ users' = users
               /\ Finish(p, req[p], Failure(409, "Username already taken"))
    /\ UNCHANGED <<variant, ui, counters, categories, expenses, budgets, lastInsertRowid,
                   issued>>

\* POST /api/login
Login(p) ==
    /\ variant = "mongo"
    /\ CanStartRequest(p)
    /\ \E body \in LoginBodies :
          LET rq    == [op |-> "login", username |-> body.username,
                        password |-> body.password]
              found == { u \in users : u.username = body.username }
          IN IF ~HasBoth(body.username, body.password)
             THEN Finish(p, rq, Failure(400, "Missing username or password"))
             ELSE IF \A u \in found : u.password # body.password
             THEN Finish(p, rq, Failure(401, "Invalid credentials"))
             ELSE Finish(p, rq, Ok([success |-> TRUE,
                                    userId |-> (CHOOSE u \in found : TRUE).id]))
    /\ UNCHANGED <<variant, ui, store, lastInsertRowid, issued>>

\* The User collection after updateOne({ id }, { $set: { username, ... } })
UsersAfterUpdate(id, username) ==
    { IF u.id = id THEN [u EXCEPT !.username = username] ELSE u : u \in users }

\* Mutation: the update is applied whoever holds the username.
UpdateAllowedNoIndex(id, username) == TRUE

\* The unique index on username admits the update: no other user holds the name
\* (an update that matches no user writes nothing and violates nothing).
UpdateAllowed(id, username) ==
    \/ \A u \in users : u.id # id
    \/ \A u \in users : u.id # id => u.username # username

\* PUT /api/user/profile
UpdateProfile(p) ==
    /\ variant = "mongo"
    /\ CanStartRequest(p)
    /\ \E id \in UserIds, username \in ProfileUsernames :
          LET rq == [op |-> "updateProfile", user |-> id, username |-> username]
          IN IF username = ""
             THEN /\ users' = users
                  /\ Finish(p, rq, Failure(400, "Username is required"))
             ELSE IF ~UpdateAllowed(id, username)
             THEN /\ users' = users
                  /\ Finish(p, rq, Failure(409, "Username already taken"))
             ELSE /\ users' = UsersAfterUpdate(id, username)
                  /\ Finish(p, rq, Ok([success |-> TRUE]))
    /\ UNCHANGED <<variant, ui, counters, categories, expenses, budgets, lastInsertRowid,
                   issued>>

\* POST /api/user/change-password: the check of the body, then
\* const user = await UserModel.findOne({ id: currentUser })
ChangePassword_FindOne(p) ==
    /\ variant = "mongo"
    /\ CanStartRequest(p)
    /\ \E id \in UserIds, body \in ChangePasswordBodies \cup ProfileFormBodies :
          LET oldPassword == Field(body, "oldPassword")
              newPassword == Field(body, "newPassword")
              rq    == [op |-> "changePassword", user |-> id, body |-> body,
                        oldPassword |-> oldPassword, newPassword |-> newPassword]
              found == { u \in users : u.id = id }
          IN IF ~HasBoth(oldPassword, newPassword)
             THEN Finish(p, rq, Failure(400, "Old password and new password are required"))
             ELSE IF found = {}
             THEN Finish(p, rq, Failure(404, "User not found"))
             ELSE IF (CHOOSE u \in found : TRUE).password # oldPassword
             THEN Finish(p, rq, Failure(401, "Old password is incorrect"))
             ELSE /\ req' = [req EXCEPT ![p] = rq]
                  /\ loc' = [loc EXCEPT ![p] =
                                [k |-> "user", doc |-> CHOOSE u \in found : TRUE]]
                  /\ pc' = [pc EXCEPT ![p] = "changePassword_save"]
                  /\ UNCHANGED <<last, raced>>
    /\ UNCHANGED <<variant, ui, store, lastInsertRowid, issued>>

\* user.password = newPassword; await user.save(): the document's password is set
\* if the document is still there; a save of a document that is gone is rejected
\* and answered 500.
ChangePassword_Save(p) ==
    /\ pc[p] = "changePassword_save"
    /\ IF \E u \in users : u.id = loc[p].doc.id
       THEN /\ users' = { IF u.id = loc[p].doc.id
                          THEN [u EXCEPT !.password = req[p].newPassword] ELSE u
                            : u \in users }
            /\ Finish(p, req[p], Ok([success |-> TRUE]))
       ELSE /\ users' = users
            /\ Finish(p, req[p], Failure(500, "Server error"))
    /\ UNCHANGED <<variant, ui, counters, categories, expenses, budgets, lastInsertRowid,
                   issued>>

----------------------------------------------------------------------------
(* GET /api/user/profile *)

ProfileRequest(u) == [op |-> "getProfile", user |-> u]

\* const user = await UserModel.findOne({ id: currentUser }).lean(); 404 if none
GetProfile_FindOne(p) ==
    /\ variant = "mongo"
    /\ CanStartRequest(p)
    /\ \E id \in UserIds :
          LET found == { u \in users : u.id = id }
          IN IF found = {}
             THEN Finish(p, ProfileRequest(id), Failure(404, "User not found"))
             ELSE /\ req' = [req EXCEPT ![p] = ProfileRequest(id)]
                  /\ loc' = [loc EXCEPT ![p] =
                                [k |-> "user", user |-> CHOOSE u \in found : TRUE]]
                  /\ pc' = [pc EXCEPT ![p] = "getProfile_count"]
                  /\ UNCHANGED <<last, raced>>
    /\ UNCHANGED <<variant, ui, store, lastInsertRowid, issued>>

\* expensesCount = await ExpenseModel.countDocuments({ user_id: currentUser })
GetProfile_Count(p) ==
    /\ pc[p] = "getProfile_count"
    /\ loc' = [loc EXCEPT ![p] =
                  [k |-> "count", user |-> loc[p].user,
                   expensesCount |->
                       Cardinality({ e \in expenses : e.user_id = req[p].user })]]
    /\ pc' = [pc EXCEPT ![p] = "getProfile_aggregate"]
    /\ UNCHANGED <<variant, ui, store, lastInsertRowid, req, last, issued, raced>>

\* totalResult = await ExpenseModel.aggregate([$match user, $group $sum amount]),
\* res.json({ id, username, ..., expenses_count, total_spent })
GetProfile_Aggregate(p) ==
    /\ pc[p] = "getProfile_aggregate"
    /\ Finish(p, req[p],
              Ok([id |-> loc[p].user.id, username |-> loc[p].user.username,
                  expenses_count |-> loc[p].expensesCount,
                  total_spent |->
                      TotalSpent({ e \in expenses : e.user_id = req[p].user })]))
    /\ UNCHANGED <<variant, ui, store, lastInsertRowid, issued>>

----------------------------------------------------------------------------
(* The store is unreachable when getNextId is called *)
(* findByIdAndUpdate rejects (after the driver's server selection or        *)
(* buffering timeout), so getNextId rejects at its await and returns no     *)
(* value; the command has not reached the store.                            *)

\* Mutation: the counter is advanced although the call fails.
GetNextIdFailsAfterInc(name) == GetNextId(name)

\* getNextId(name) rejects.
GetNextIdFails(name) == UNCHANGED <<counters, issued>>

\* POST /api/expenses: getNextId rejects and nothing catches it.
AddExpense_GetNextIdFails(p) ==
    /\ variant = "mongo"
    /\ CanStart(p)
    /\ GetNextIdFails("expense")
    /\ \E u \in UserIds, a \in ExpenseAmounts, c \in ExpenseCategoryIds, d \in ExpenseDates :
          Finish(p, [op |-> "addExpense", user |-> u, amount |-> a,
                     category_id |-> c, date |-> d],
                 Rejected("StorageUnavailable"))
    /\ UNCHANGED <<variant, ui, users, categories, expenses, budgets, lastInsertRowid>>

\* POST /api/budgets, no budget found: getNextId rejects and nothing catches it.
UpsertBudget_GetNextIdFails(p) ==
    /\ variant = "mongo"
    /\ pc[p] = "upsertBudget_getNextId"
    /\ GetNextIdFails("budget")
    /\ Finish(p, req[p], Rejected("StorageUnavailable"))
    /\ UNCHANGED <<variant, ui, users, categories, expenses, budgets, lastInsertRowid>>

\* POST /api/signup: getNextId rejects inside the try; the catch answers 500.
Signup_GetNextIdFails(p) ==
    /\ variant = "mongo"
    /\ CanStartRequest(p)
    /\ GetNextIdFails("user")
    /\ \E body \in SignupBodies :
          /\ HasBoth(body.username, body.password)
          /\ Finish(p, [op |-> "signup", username |-> body.username,
                        password |-> body.password],
                    Failure(500, "Server error"))
    /\ UNCHANGED <<variant, ui, users, categories, expenses, budgets, lastInsertRowid>>

\* seedDatabase: getNextId("category") rejects; seedDatabase rejects and startServer
\* logs the error.
Seed_CategoryIdFails(p) ==
    /\ pc[p] = "seed_categoryId"
    /\ GetNextIdFails("category")
    /\ Finish(p, req[p], Rejected("StorageUnavailable"))
    /\ UNCHANGED <<variant, ui, users, categories, expenses, budgets, lastInsertRowid>>

\* seedDatabase: getNextId("user") rejects.
Seed_UserIdFails(p) ==
    /\ pc[p] = "seed_userId"
    /\ GetNextIdFails("user")
    /\ Finish(p, req[p], Rejected("StorageUnavailable"))
    /\ UNCHANGED <<variant, ui, users, categories, expenses, budgets, lastInsertRowid>>

----------------------------------------------------------------------------
(* The page: src/src/App.tsx *)
(* A call of fetchData occupies a slot; the month of its two monthly requests *)
(* is the monthStr of the render that made the call. The page sends no        *)
(* x-user-id, so both servers answer for user 1.                              *)

\* format(currentMonth, 'yyyy-MM'), the month n counted as year * 12 + month - 1
FormatYearMonth(n) ==
    LET y == n \div 12
        m == (n % 12) + 1
    IN << 48 + (y \div 1000), 48 + ((y \div 100) % 10), 48 + ((y \div 10) % 10),
          48 + (y % 10), 45, 48 + (m \div 10), 48 + (m % 10) >>

\* useState(new Date()): the page is opened in May 2024
InitialMonths == { 2024 * 12 + 4 }

\* GET /api/categories: the rows (their order is left out)
CategoriesBody(v) == categories

\* GET /api/expenses: the listings the server may answer with
ExpensesBody(v, u) ==
    IF v = "mongo"
    THEN { [i \in DOMAIN found |->
               ListedExpense(found[i], { c \in categories : c.id = found[i].category_id })]
             : found \in SortByDateDescending({ e \in expenses : e.user_id = u }) }
    ELSE SortByDateDescending(JoinCategories(expenses, u))

\* GET /api/budgets?month=: the budgets of the user and month with the name of
\* their category ("Unknown" on MongoDB, no row on SQLite, where there is none),
\* in an order the query does not fix
BudgetsBody(v, u, month) ==
    IF v = "mongo"
    THEN InAnyOrder({ [id |-> b.id, category_id |-> b.category_id,
                       category_name |->
                           IF \E c \in categories : c.id = b.category_id
                           THEN (CHOOSE c \in categories : c.id = b.category_id).name
                           ELSE "Unknown",
                       amount |-> b.amount, month |-> b.month]
                        : b \in { x \in budgets : x.user_id = u /\ x.month = month } })
    ELSE InAnyOrder({ [id |-> x[1].id, user_id |-> x[1].user_id,
                       category_id |-> x[1].category_id, amount |-> x[1].amount,
                       month |-> x[1].month, category_name |-> x[2].name]
                        : x \in { y \in budgets \X categories :
                                     /\ y[1].category_id = y[2].id
                                     /\ y[1].user_id = u /\ y[1].month = month } })

\* GET /api/stats/summary?month=: the summaries the server may answer with
StatsBody(v, u, month) ==
    IF v = "mongo"
    THEN LET rows == MatchUserMonth(expenses, u, month)
         IN { [totalSpent        |-> TotalSpent(rows),
               categoryBreakdown |->
                   [i \in DOMAIN raw |-> CategoryBreakdownEntry(raw[i], categories)],
               dailySpending     |-> DailySpending(rows)]
                : raw \in InAnyOrder(GroupByCategory(rows)) }
    ELSE LET rows == WhereUserMonth(expenses, u, month)
         IN { [totalSpent        |-> TotalSpent(rows),
               categoryBreakdown |-> breakdown,
               dailySpending     |-> DailySpending(rows)]
                : breakdown \in InAnyOrder(JoinGroupByCategory(rows)) }

FetchRequest(n) == [op |-> "fetchData", month |-> FormatYearMonth(n)]

\* The first render: useEffect(() => { fetchData() }, [currentMonth]) runs and
\* fetchData sends its four requests.
Mount(p) ==
    /\ BootProc(p)
    /\ pc[p] = "new"
    /\ req' = [req EXCEPT ![p] = FetchRequest(ui.currentMonth)]
    /\ pc' = [pc EXCEPT ![p] = "fetchData_await"]
    /\ UNCHANGED <<variant, ui, store, lastInsertRowid, loc, last, issued, raced>>

\* A click on the previous or the next month:
\* setCurrentMonth(prev => new Date(prev.getFullYear(), prev.getMonth() -/+ 1)),
\* the render with the new monthStr, and the effect's call of fetchData.
SetCurrentMonth(p) ==
    /\ CanStartRequest(p)
    /\ \A q \in Procs : BootProc(q) => pc[q] # "new"
    /\ \E d \in {-1, 1} :
          /\ ui' = [ui EXCEPT !.currentMonth = @ + d]
          /\ req' = [req EXCEPT ![p] = FetchRequest(ui.currentMonth + d)]
    /\ pc' = [pc EXCEPT ![p] = "fetchData_await"]
    /\ UNCHANGED <<variant, store, lastInsertRowid, loc, last, issued, raced>>

\* await Promise.all([...]): the four responses of this call are in. (No request
\* of the page changes the store here, so the four are read in one step.)
FetchData_Await(p) ==
    /\ pc[p] = "fetchData_await"
    /\ \E e \in ExpensesBody(variant, 1),
          b \in BudgetsBody(variant, 1, req[p].month),
          t \in StatsBody(variant, 1, req[p].month) :
          loc' = [loc EXCEPT ![p] = [k |-> "responses", categories |-> CategoriesBody(variant),
                                     expenses |-> e, budgets |-> b, stats |-> t]]
    /\ pc' = [pc EXCEPT ![p] = "fetchData_setCategories"]
    /\ UNCHANGED <<variant, ui, store, lastInsertRowid, req, last, issued, raced>>

\* setCategories(await catsRes.json())
FetchData_SetCategories(p) ==
    /\ pc[p] = "fetchData_setCategories"
    /\ ui' = [ui EXCEPT !.categories = loc[p].categories]
    /\ pc' = [pc EXCEPT ![p] = "fetchData_setExpenses"]
    /\ UNCHANGED <<variant, store, lastInsertRowid, req, loc, last, issued, raced>>

\* setExpenses(await expRes.json())
FetchData_SetExpenses(p) ==
    /\ pc[p] = "fetchData_setExpenses"
    /\ ui' = [ui EXCEPT !.expenses = loc[p].expenses]
    /\ pc' = [pc EXCEPT ![p] = "fetchData_setBudgets"]
    /\ UNCHANGED <<variant, store, lastInsertRowid, req, loc, last, issued, raced>>

\* setBudgets(await budRes.json())
FetchData_SetBudgets(p) ==
    /\ pc[p] = "fetchData_setBudgets"
    /\ ui' = [ui EXCEPT !.budgets = loc[p].budgets]
    /\ pc' = [pc EXCEPT ![p] = "fetchData_setStats"]
    /\ UNCHANGED <<variant, store, lastInsertRowid, req, loc, last, issued, raced>>

\* setStats(await statsRes.json()); fetchData returns
FetchData_SetStats(p) ==
    /\ pc[p] = "fetchData_setStats"
    /\ ui' = [ui EXCEPT !.stats = loc[p].stats]
    /\ Finish(p, req[p], Ok([fetched |-> TRUE]))
    /\ UNCHANGED <<variant, store, lastInsertRowid, issued>>

----------------------------------------------------------------------------
\* One step of the request in slot p.
Step(p) ==
    \/ AddExpense_GetNextId(p)
    \/ AddExpense_Create(p)
    \/ DeleteExpense(p)
    \/ UpsertBudget_FindOne(p)
    \/ UpsertBudget_Save(p)
    \/ UpsertBudget_GetNextId(p)
    \/ UpsertBudget_Create(p)
    \/ DeleteUser_Expenses(p)
    \/ DeleteUser_Budgets(p)
    \/ DeleteUser_User(p)
    \/ SqlAddExpense(p)
    \/ SqlDeleteExpense(p)
    \/ SqlUpsertBudget(p)

\* Concurrent requests: the database calls of the requests in flight interleave.
Next == \E p \in Procs : Step(p)

Spec == Init /\ [][Next]_vars

\* Requests made one after another: a request runs while no other is in flight.
Alone(p) == \A q \in Procs \ {p} : pc[q] \in {"new", "done"}

SeqNext ==
    \E p \in Procs :
        \/ Alone(p) /\ AddExpense_GetNextId(p)
        \/ Alone(p) /\ AddExpense_Create(p)
        \/ Alone(p) /\ DeleteExpense(p)
        \/ Alone(p) /\ UpsertBudget_FindOne(p)
        \/ Alone(p) /\ UpsertBudget_Save(p)
        \/ Alone(p) /\ UpsertBudget_GetNextId(p)
        \/ Alone(p) /\ UpsertBudget_Create(p)
        \/ Alone(p) /\ DeleteUser_Expenses(p)
        \/ Alone(p) /\ DeleteUser_Budgets(p)
        \/ Alone(p) /\ DeleteUser_User(p)
        \/ Alone(p) /\ SqlAddExpense(p)
        \/ Alone(p) /\ SqlDeleteExpense(p)
        \/ Alone(p) /\ SqlUpsertBudget(p)

SpecSeq == Init /\ [][SeqNext]_vars

----------------------------------------------------------------------------
(* The read path over a ledger: a server that has stored up to MaxLedger   *)
(* expenses answers one summary or listing request.                        *)

MaxLedger == 3

LedgerDates == <<D_2024_05_01, D_2024_05_02, D_2024_06_01>>
LedgerAmounts == {30, 50}
\* POST /api/expenses stores any category_id on the MongoDB server (9 is the id of
\* no category); on the SQLite server the foreign key admits only a category's id
\* or NULL, and the user is always currentUser.
LedgerCategoryIds(v) == IF v = "mongo" THEN {1, 2, 9} ELSE {1, 2, SqlNull}
LedgerUserIds(v) == IF v = "mongo" THEN UserIds ELSE {currentUser}

\* The accepted POST /api/expenses requests a ledger comes from.
LedgerRequests(v) ==
    { [op |-> "addExpense", user |-> u, amount |-> a, category_id |-> c,
       date |-> LedgerDates[d]]
        : u \in LedgerUserIds(v), a \in LedgerAmounts, c \in LedgerCategoryIds(v),
          d \in DOMAIN LedgerDates }

DateIndex(date) == CHOOSE d \in DOMAIN LedgerDates : LedgerDates[d] = date

\* An order of the requests: of the ledgers that differ only in which id holds
\* which expense, the one whose requests came in this order is drawn.
Rank(rq) == ((rq.user * 10 + rq.category_id) * 100 + rq.amount) * 10 + DateIndex(rq.date)

Ledgers(v) ==
    UNION { { l \in [1..n -> LedgerRequests(v)] :
                \A i \in 1..(n - 1) : Rank(l[i]) <= Rank(l[i + 1]) }
            : n \in 0..MaxLedger }

\* The store after the requests of a ledger were served, in order, on a freshly
\* seeded server.
InitAgg ==
    /\ variant \in {"mongo", "sqlite"}
    /\ ui = NoUi
    /\ \E l \in Ledgers(variant) :
          /\ expenses = { ExpenseDoc(i, l[i]) : i \in DOMAIN l }
          /\ counters = [t \in {"category", "user"} \cup
                               (IF Len(l) > 0 THEN {"expense"} ELSE {}) |->
                            IF t = "category" THEN Len(DefaultCategories)
                            ELSE IF t = "user" THEN 1 ELSE Len(l)]
          /\ issued = [t \in EntityTypes |->
                          IF t = "expense" /\ variant = "mongo"
                          THEN [i \in DOMAIN l |-> i] ELSE << >>]
          /\ lastInsertRowid = IF variant = "mongo" THEN 0
                               ELSE IF Len(l) > 0 THEN Len(l) ELSE 1
    /\ users = SeededUsers
    /\ categories = SeededCategories
    /\ budgets = {}
    /\ pc = [p \in Procs |-> "new"]
    /\ req = [p \in Procs |-> NoReq]
    /\ loc = [p \in Procs |-> NoLoc]
    /\ last = NoLast
    /\ raced = {}

\* The one request of the read-path specification.
StatsProcs == {p \in Procs : \A q \in Procs : p <= q}

AggNext ==
    \E p \in StatsProcs :
        \/ Stats_Total(p)
        \/ Stats_CategoryBreakdownRaw(p)
        \/ Stats_Categories(p)
        \/ Stats_DailySpending(p)
        \/ SqlStats(p)
        \/ ListExpenses_Find(p)
        \/ ListExpenses_Categories(p)
        \/ SqlListExpenses(p)

SpecAgg == InitAgg /\ [][AggNext]_vars

----------------------------------------------------------------------------
(* The summary over stored dates as POST /api/expenses takes them: the date of *)
(* the body is stored as the text it is, whatever its form.                   *)

\* "2024-05-1": a date text of May 2024 whose day has one digit
D_2024_05_1 == <<50,48,50,52,45,48,53,45,49>>

RawDates == {D_2024_05_1, D_2024_05_01, D_2024_06_01}

RawRequests(v) ==
    { [op |-> "addExpense", user |-> u, amount |-> a, category_id |-> c, date |-> d]
        : u \in LedgerUserIds(v), a \in LedgerAmounts, c \in ExpenseCategoryIds,
          d \in RawDates }

RawLedgers(v) == UNION { [1..n -> RawRequests(v)] : n \in 0..MaxLedger }

\* The store after the requests of a ledger were served, in order, on a freshly
\* seeded server.
InitAggRaw ==
    /\ variant \in {"mongo", "sqlite"}
    /\ ui = NoUi
    /\ \E l \in RawLedgers(variant) :
          /\ expenses = { ExpenseDoc(i, l[i]) : i \in DOMAIN l }
          /\ counters = [t \in {"category", "user"} \cup
                               (IF Len(l) > 0 THEN {"expense"} ELSE {}) |->
                            IF t = "category" THEN Len(DefaultCategories)
                            ELSE IF t = "user" THEN 1 ELSE Len(l)]
          /\ issued = [t \in EntityTypes |->
                          IF t = "expense" /\ variant = "mongo"
                          THEN [i \in DOMAIN l |-> i] ELSE << >>]
          /\ lastInsertRowid = IF variant = "mongo" THEN 0
                               ELSE IF Len(l) > 0 THEN Len(l) ELSE 1
    /\ users = SeededUsers
    /\ categories = SeededCategories
    /\ budgets = {}
    /\ pc = [p \in Procs |-> "new"]
    /\ req = [p \in Procs |-> NoReq]
    /\ loc = [p \in Procs |-> NoLoc]
    /\ last = NoLast
    /\ raced = {}

AggRawNext ==
    \E p \in StatsProcs :
        \/ Stats_Total(p)
        \/ Stats_CategoryBreakdownRaw(p)
        \/ Stats_Categories(p)
        \/ Stats_DailySpending(p)
        \/ SqlStats(p)

SpecAggRaw == InitAggRaw /\ [][AggRawNext]_vars

----------------------------------------------------------------------------
(* The start of a server, on a fresh database or on the database a previous run *)
(* left, and the account requests of the MongoDB server.                        *)

InitBoot ==
    /\ variant \in {"mongo", "sqlite"}
    /\ ui = NoUi
    /\ \/ /\ counters = [t \in {} |-> 0]
          /\ users = {}
          /\ categories = {}
       \/ /\ counters = [t \in {"category", "user"} |->
                            IF t = "category" THEN Len(DefaultCategories) ELSE 1]
          /\ users = SeededUsers
          /\ categories = SeededCategories
    /\ expenses = {}
    /\ budgets = {}
    /\ lastInsertRowid = 0
    /\ pc = [p \in Procs |-> "new"]
    /\ req = [p \in Procs |-> NoReq]
    /\ loc = [p \in Procs |-> NoLoc]
    /\ last = NoLast
    /\ issued = [t \in EntityTypes |-> << >>]
    /\ raced = {}

BootNext ==
    \E p \in Procs :
        \/ Seed_CountCategories(p)
        \/ Seed_CategoryId(p)
        \/ Seed_CreateCategory(p)
        \/ Seed_CountUsers(p)
        \/ Seed_UserId(p)
        \/ Seed_CreateUser(p)
        \/ SqlSeed_Categories(p)
        \/ SqlSeed_User(p)
        \/ Signup_GetNextId(p)
        \/ Signup_Create(p)
        \/ Login(p)
        \/ UpdateProfile(p)
        \/ ChangePassword_FindOne(p)
        \/ ChangePassword_Save(p)
        \/ GetProfile_FindOne(p)
        \/ GetProfile_Count(p)
        \/ GetProfile_Aggregate(p)

SpecBoot == InitBoot /\ [][BootNext]_vars

BootSeqNext ==
    \E p \in Procs :
        \/ Alone(p) /\ Seed_CountCategories(p)
        \/ Alone(p) /\ Seed_CategoryId(p)
        \/ Alone(p) /\ Seed_CreateCategory(p)
        \/ Alone(p) /\ Seed_CountUsers(p)
        \/ Alone(p) /\ Seed_UserId(p)
        \/ Alone(p) /\ Seed_CreateUser(p)
        \/ Alone(p) /\ SqlSeed_Categories(p)
        \/ Alone(p) /\ SqlSeed_User(p)
        \/ Alone(p) /\ Signup_GetNextId(p)
        \/ Alone(p) /\ Signup_Create(p)
        \/ Alone(p) /\ Login(p)
        \/ Alone(p) /\ UpdateProfile(p)
        \/ Alone(p) /\ ChangePassword_FindOne(p)
        \/ Alone(p) /\ ChangePassword_Save(p)
        \/ Alone(p) /\ GetProfile_FindOne(p)
        \/ Alone(p) /\ GetProfile_Count(p)
        \/ Alone(p) /\ GetProfile_Aggregate(p)

SpecBootSeq == InitBoot /\ [][BootSeqNext]_vars

----------------------------------------------------------------------------
(* The MongoDB server while the store may become unreachable: the operations *)
(* that allocate an id, each call of getNextId succeeding or failing.        *)

InitOutage == InitBoot /\ variant = "mongo"

OutageNext ==
    \E p \in Procs :
        \/ Seed_CountCategories(p)
        \/ Seed_CategoryId(p)
        \/ Seed_CategoryIdFails(p)
        \/ Seed_CreateCategory(p)
        \/ Seed_CountUsers(p)
        \/ Seed_UserId(p)
        \/ Seed_UserIdFails(p)
        \/ Seed_CreateUser(p)
        \/ Signup_GetNextId(p)
        \/ Signup_GetNextIdFails(p)
        \/ Signup_Create(p)
        \/ AddExpense_GetNextId(p)
        \/ AddExpense_GetNextIdFails(p)
        \/ AddExpense_Create(p)
        \/ UpsertBudget_FindOne(p)
        \/ UpsertBudget_Save(p)
        \/ UpsertBudget_GetNextId(p)
        \/ UpsertBudget_GetNextIdFails(p)
        \/ UpsertBudget_Create(p)

SpecOutage == InitOutage /\ [][OutageNext]_vars

----------------------------------------------------------------------------
(* The page over a store that holds, for user 1, at most one expense and one   *)
(* budget in each of May and June 2024.                                        *)

UiMonths == {M_2024_05, M_2024_06}

\* The months of the expenses (of the budgets) stored, in the order they were
\* added.
UiLedgers ==
    { l \in UNION { [1..n -> UiMonths] : n \in 0..2 } :
         \A i, j \in DOMAIN l : i # j => l[i] # l[j] }

InitUI ==
    /\ variant \in {"mongo", "sqlite"}
    /\ \E el \in UiLedgers, bl \in UiLedgers :
          /\ expenses = { [id |-> i, user_id |-> 1, amount |-> 50, category_id |-> 1,
                           date |-> IF el[i] = M_2024_05 THEN D_2024_05_01
                                    ELSE D_2024_06_01] : i \in DOMAIN el }
          /\ budgets = { [id |-> i, user_id |-> 1, category_id |-> 1,
                          amount |-> IF bl[i] = M_2024_05 THEN 100 ELSE 150,
                          month |-> bl[i]] : i \in DOMAIN bl }
          /\ counters = [t \in {"category", "user"}
                                 \cup (IF Len(el) > 0 THEN {"expense"} ELSE {})
                                 \cup (IF Len(bl) > 0 THEN {"budget"} ELSE {}) |->
                            IF t = "category" THEN Len(DefaultCategories)
                            ELSE IF t = "user" THEN 1
                            ELSE IF t = "expense" THEN Len(el) ELSE Len(bl)]
          /\ issued = [t \in EntityTypes |->
                          IF variant # "mongo" THEN << >>
                          ELSE IF t = "expense" THEN [i \in DOMAIN el |-> i]
                          ELSE IF t = "budget" THEN [i \in DOMAIN bl |-> i]
                          ELSE << >>]
          /\ lastInsertRowid = IF variant = "mongo" THEN 0
                               ELSE IF Len(bl) > 0 THEN Len(bl)
                               ELSE IF Len(el) > 0 THEN Len(el) ELSE 1
    /\ users = SeededUsers
    /\ categories = SeededCategories
    /\ \E n \in InitialMonths :
          ui = [currentMonth |-> n, categories |-> {}, expenses |-> << >>,
                budgets |-> << >>, stats |-> [k |-> "null"]]
    /\ pc = [p \in Procs |-> "new"]
    /\ req = [p \in Procs |-> NoReq]
    /\ loc = [p \in Procs |-> NoLoc]
    /\ last = NoLast
    /\ raced = {}

UINext ==
    \E p \in Procs :
        \/ Mount(p)
        \/ SetCurrentMonth(p)
        \/ FetchData_Await(p)
        \/ FetchData_SetCategories(p)
        \/ FetchData_SetExpenses(p)
        \/ FetchData_SetBudgets(p)
        \/ FetchData_SetStats(p)

SpecUI == InitUI /\ [][UINext]_vars
----------------------------------------------------------------------------
(* Properties *)

InFlight(p) == pc[p] \notin {"new", "done"}

\* C1: for every interleaving of concurrent getNextId calls, each call returns a
\* value strictly greater than every value returned earlier for the same entity
\* type; in particular no two calls return the same value for a type.
C1_AllocatorStrictlyIncreasing ==
    \A t \in EntityTypes :
        \A i, j \in 1..Len(issued[t]) : i < j => issued[t][i] < issued[t][j]

\* Two requests hold ids of the same type at the same time (their getNextId calls
\* ran back to back before either record was created).
C1_Witness ==
    \E p, q \in Procs :
        /\ p # q
        /\ pc[p] = "addExpense_create" /\ pc[q] = "addExpense_create"
        /\ Len(issued["expense"]) >= 2

\* C2: in every reachable state the store holds at most one Budget row per
\* (user_id, category_id, month) triple.
C2_BudgetTripleUnique ==
    \A b1, b2 \in budgets :
        (b1.user_id = b2.user_id /\ b1.category_id = b2.category_id /\ b1.month = b2.month)
            => b1 = b2

\* An upsert that found no budget is about to create one while the budget of a
\* concurrent upsert of the same triple is already stored.
C2_Witness ==
    \E p \in raced :
        /\ pc[p] = "upsertBudget_create"
        /\ BudgetsOf(req[p].user, req[p].category_id, req[p].month) # {}

\* The counter values of the seeded store (seedDatabase allocated 7 categories and
\* one user before any request).
SeededCounter(t) ==
    IF t = "category" THEN Len(DefaultCategories) ELSE IF t = "user" THEN 1 ELSE 0

\* C6: the values getNextId returns for a type never allocated before are exactly
\* 1, 2, ..., N in every interleaving (the first is 1, none repeats, none is
\* skipped), and a type's counter is advanced by the calls for that type only.
C6_AllocatorDense ==
    \A t \in EntityTypes :
        /\ issued[t] = [i \in 1..Len(issued[t]) |-> SeededCounter(t) + i]
        /\ variant = "mongo" => CounterValue(t) = SeededCounter(t) + Len(issued[t])

\* Calls for two types have been interleaved, several for one of them.
C6_Witness ==
    /\ Len(issued["expense"]) >= 2
    /\ Len(issued["budget"]) >= 1

\* C7: no step lowers or removes the sequence counter of an entity type, the
\* steps of expense deletion and of user deletion with its cascade included.
C7_CounterNeverDecreases ==
    [][\A t \in EntityTypes :
          /\ CounterValue(t)' >= CounterValue(t)
          /\ t \in DOMAIN counters => t \in DOMAIN counters']_vars

\* A user deletion has completed and emptied the ledger, and the counters still
\* hold the values issued before it.
C7_Witness ==
    /\ last.req.op = "deleteUser"
    /\ expenses = {} /\ budgets = {}
    /\ CounterValue("expense") >= 1 /\ CounterValue("budget") >= 1
\* A step that answers a request of slot p.
Answers(p) == pc[p] # "done" /\ pc'[p] = "done"

\* C3 (the claim as stated; the MongoDB handler has no retry): an upsert that
\* found no budget while a concurrent upsert of the same triple found none either
\* completes successfully with the id of the one Budget row of the triple.
C3_RacedUpsertSucceeds ==
    [][\A p \in Procs :
          (p \in raced /\ pc[p] = "upsertBudget_create" /\ Answers(p))
              => /\ last'.resp.status = 200
                 /\ \E b \in budgets' :
                       /\ TripleRows(budgets', req[p].user, req[p].category_id,
                                     req[p].month) = {b}
                       /\ last'.resp.body.id = b.id]_vars

\* C4 (the claim as stated): an upsert answered while the triple has a Budget
\* replaces that budget's amount in place, answers with that budget's id and
\* leaves the budget sequence counter unchanged.
C4_UpsertExistingInPlace ==
    [][\A p \in Procs :
          (/\ Answers(p)
           /\ last'.req.op = "upsertBudget"
           /\ BudgetsOf(last'.req.user, last'.req.category_id, last'.req.month) # {})
              => \E b \in BudgetsOf(last'.req.user, last'.req.category_id, last'.req.month) :
                    /\ budgets' = (budgets \ {b}) \cup {[b EXCEPT !.amount = last'.req.amount]}
                    /\ last'.resp = Ok([id |-> b.id])
                    /\ counters' = counters]_vars

\* C8 (the claim as stated): at the step that completes deleteUser(u), the store
\* holds no Expense and no Budget row of u.
C8_DeleteUserLeavesNoRows ==
    [][\A p \in Procs :
          (pc[p] = "deleteUser_user" /\ Answers(p))
              => /\ \A e \in expenses' : e.user_id # req[p].user
                 /\ \A b \in budgets' : b.user_id # req[p].user]_vars

\* C9: deleteExpense(id, userId) removes exactly the expense with that id owned by
\* that user; when no such expense exists it answers success and the whole store
\* is unchanged.  Every other expense, and every other collection, is unchanged.
C9_DeleteExpenseFrame ==
    [][\A p \in Procs :
          (Answers(p) /\ last'.req.op = "deleteExpense")
              => LET hit == { e \in expenses : e.id = last'.req.id /\ e.user_id = last'.req.user }
                 IN /\ expenses' = expenses \ hit
                    /\ Cardinality(hit) <= 1
                    /\ UNCHANGED <<counters, users, categories, budgets>>
                    /\ last'.resp = Ok([success |-> TRUE])]_vars

\* A delete naming another user's expense has been answered: the expense it named
\* is still stored, beside a second expense.
C9_Witness ==
    /\ last.req.op = "deleteExpense"
    /\ \E e \in expenses : e.id = last.req.id /\ e.user_id # last.req.user
    /\ Cardinality(expenses) >= 2
\* C5: of two upserts made in succession for one triple, the second leaves exactly
\* one Budget for the triple, the row the first left, with the requested amount
\* and its id unchanged; when the two carry the same amount the second returns the
\* same id as the first.
C5_UpsertIdempotent ==
    [][\A p \in Procs :
          (/\ Answers(p)
           /\ last'.req.op = "upsertBudget"
           /\ last.req.op = "upsertBudget" /\ last.resp.status = 200
           /\ SameTriple(last.req, last'.req))
              => /\ last'.resp.status = 200
                 /\ last'.req.amount = last.req.amount => last'.resp.body.id = last.resp.body.id
                 /\ \E b \in budgets :
                       /\ BudgetsOf(last.req.user, last.req.category_id, last.req.month) = {b}
                       /\ b.amount = last.req.amount
                       /\ TripleRows(budgets', last.req.user, last.req.category_id,
                                     last.req.month)
                             = {[b EXCEPT !.amount = last'.req.amount]}]_vars

\* Three upserts of one triple have been answered in a row: two with the same
\* amount, then one with another amount.
C5_Witness ==
    /\ Len(last.run) >= 3
    /\ last.run[1] = last.run[2]
    /\ last.run[3] # last.run[2]
    /\ \E b \in budgets : b.amount = last.run[3] /\ b.user_id = last.req.user

\* C10: the dailySpending a summary request is answered with holds exactly one
\* entry per distinct date among the user's expenses of the month, each entry's
\* amount is the sum of the amounts of the expenses of that date, and the entries
\* are in strictly ascending order of date.
C10_DailySpendingGroupedSorted ==
    [][\A p \in Procs :
          (Answers(p) /\ last'.req.op = "stats" /\ last'.resp.status = 200)
              => LET u        == last'.req.user
                     month    == last'.req.month
                     daily    == last'.resp.body.dailySpending
                     selected == { e \in expenses :
                                      e.user_id = u /\ SubSeq(e.date, 1, 7) = month }
                 IN /\ \A d \in { e.date : e \in selected } :
                          Cardinality({ i \in DOMAIN daily : daily[i].date = d }) = 1
                    /\ \A i \in DOMAIN daily :
                          /\ \E e \in selected : e.date = daily[i].date
                          /\ daily[i].amount =
                                SumAmount({ e \in selected : e.date = daily[i].date })
                    /\ \A i \in 1..(Len(daily) - 1) :
                          StringLess(daily[i].date, daily[i + 1].date)]_vars

\* A summary was answered over a ledger of three expenses: two of one date, summed
\* to 80, and a third of a later date.
C10_Witness ==
    /\ last.req.op = "stats" /\ last.resp.status = 200
    /\ Cardinality(expenses) = 3
    /\ Len(last.resp.body.dailySpending) = 2
    /\ last.resp.body.dailySpending[1] = [date |-> D_2024_05_01, amount |-> 80]
    /\ last.resp.body.dailySpending[2].date = D_2024_05_02

\* C11: the categoryBreakdown a summary request is answered with holds exactly one
\* entry per distinct category id among the user's expenses of the month (NULL is
\* no id), under the category's name where the category exists, and each entry's
\* value is the sum of the amounts of the expenses of that category.
C11_CategoryBreakdownGrouped ==
    [][\A p \in Procs :
          (Answers(p) /\ last'.req.op = "stats" /\ last'.resp.status = 200)
              => LET breakdown == last'.resp.body.categoryBreakdown
                     selected  == { e \in expenses :
                                       /\ e.user_id = last'.req.user
                                       /\ SubSeq(e.date, 1, 7) = last'.req.month }
                     ids       == { e.category_id : e \in selected } \ {SqlNull}
                 IN \E f \in [DOMAIN breakdown -> ids] :
                       /\ \A c \in ids :
                             Cardinality({ i \in DOMAIN breakdown : f[i] = c }) = 1
                       /\ \A i \in DOMAIN breakdown :
                             /\ breakdown[i].value =
                                   SumAmount({ e \in selected : e.category_id = f[i] })
                             /\ \A k \in categories :
                                   k.id = f[i] => breakdown[i].name = k.name]_vars

\* A summary was answered over three expenses of the month: two of category Food,
\* summed to 80, and one of category Transport.
C11_Witness ==
    /\ last.req.op = "stats" /\ last.resp.status = 200
    /\ Len(last.resp.body.categoryBreakdown) = 2
    /\ \E i, j \in DOMAIN last.resp.body.categoryBreakdown :
          /\ last.resp.body.categoryBreakdown[i].name = "Food"
          /\ last.resp.body.categoryBreakdown[i].value = 80
          /\ last.resp.body.categoryBreakdown[j].name = "Transport"

\* C12: the totalSpent a summary request is answered with is the sum of the amounts
\* of all the expenses of the user in the month.
C12_TotalSpentIsSum ==
    [][\A p \in Procs :
          (Answers(p) /\ last'.req.op = "stats" /\ last'.resp.status = 200)
              => last'.resp.body.totalSpent =
                    SumAmount({ e \in expenses :
                                   /\ e.user_id = last'.req.user
                                   /\ SubSeq(e.date, 1, 7) = last'.req.month })]_vars

\* A summary was answered with the total 80 of two expenses while the ledger holds
\* a third expense, of another user or month.
C12_Witness ==
    /\ last.req.op = "stats" /\ last.resp.status = 200
    /\ last.resp.body.totalSpent = 80
    /\ Cardinality(expenses) = 3
    /\ \E e \in expenses : e.user_id # last.req.user \/ SubSeq(e.date, 1, 7) # last.req.month

\* C13: a summary request for a user and month with no expense is answered with
\* success, totalSpent 0 and an empty categoryBreakdown and dailySpending.
C13_EmptyMonth ==
    [][\A p \in Procs :
          (/\ Answers(p) /\ last'.req.op = "stats"
           /\ \A e \in expenses :
                 e.user_id # last'.req.user \/ SubSeq(e.date, 1, 7) # last'.req.month)
              => /\ last'.resp.status = 200
                 /\ last'.resp.body.totalSpent = 0
                 /\ last'.resp.body.categoryBreakdown = << >>
                 /\ last'.resp.body.dailySpending = << >>]_vars

\* A summary of a month without expenses was answered over a ledger that holds
\* expenses of the user in another month.
C13_Witness ==
    /\ last.req.op = "stats" /\ last.resp.status = 200
    /\ last.resp.body.totalSpent = 0
    /\ last.resp.body.dailySpending = << >>
    /\ \E e \in expenses : e.user_id = last.req.user /\ SubSeq(e.date, 1, 7) # last.req.month

\* C14: an expense of the user whose category_id names no category is in the
\* listing the user is answered with, under category_name "Unknown" and the
\* fallback color, and the listing request succeeds.
C14_UnknownCategoryListed ==
    [][\A p \in Procs :
          (Answers(p) /\ last'.req.op = "listExpenses")
              => /\ last'.resp.status = 200
                 /\ \A e \in expenses :
                       (/\ e.user_id = last'.req.user
                        /\ \A k \in categories : k.id # e.category_id)
                          => \E i \in DOMAIN last'.resp.body :
                                /\ last'.resp.body[i].id = e.id
                                /\ last'.resp.body[i].category_name = "Unknown"
                                /\ last'.resp.body[i].category_color = "#6b7280"]_vars

\* C15: a category_id among the user's expenses of the month that names no
\* category has an entry in the answered categoryBreakdown with name "Unknown", the
\* fallback color and the sum of the amounts of its expenses.
C15_UnknownCategoryReported ==
    [][\A p \in Procs :
          (Answers(p) /\ last'.req.op = "stats")
              => /\ last'.resp.status = 200
                 /\ LET selected == { e \in expenses :
                                         /\ e.user_id = last'.req.user
                                         /\ SubSeq(e.date, 1, 7) = last'.req.month }
                    IN \A e \in selected :
                          (\A k \in categories : k.id # e.category_id)
                             => \E i \in DOMAIN last'.resp.body.categoryBreakdown :
                                   last'.resp.body.categoryBreakdown[i] =
                                      [name |-> "Unknown", color |-> "#6b7280",
                                       value |-> SumAmount({ x \in selected :
                                                   x.category_id = e.category_id })]]_vars

\* C16: seeding is a no-op on a store that holds categories and users: a run that
\* begins while categories exist goes straight to the count of the users, a count
\* of the users that finds one ends the run, and neither step creates or changes a
\* record or advances a counter.
C16_SeedingIdempotent ==
    [][\A p \in Procs :
          /\ (BootProc(p) /\ pc[p] = "new" /\ pc'[p] # "new" /\ categories # {})
                => /\ pc'[p] \in {"seed_countUsers", "sqlSeed_user"}
                   /\ UNCHANGED <<store, lastInsertRowid>>
          /\ (pc[p] \in {"seed_countUsers", "sqlSeed_user"} /\ pc'[p] # pc[p]
                /\ users # {})
                => /\ pc'[p] = "done" /\ last'.resp.status = 200
                   /\ UNCHANGED <<store, lastInsertRowid>>]_vars

\* Seeding has run to its end on the store a previous run had seeded: no id was
\* allocated, and the store is as it was.
C16_Witness ==
    /\ last.req.op = "seed" /\ last.resp.status = 200 /\ ~last.req.fresh
    /\ \A t \in EntityTypes : issued[t] = << >>
    /\ categories = SeededCategories /\ users = SeededUsers
    /\ counters["category"] = 7 /\ counters["user"] = 1

\* C17: when a seeding that began on a store without categories and users ends,
\* the categories are the seven defaults Food, Transport, Entertainment, Shopping,
\* Utilities, Health, Other, their ids increase in that order, and the one user
\* there is has the username "demo".
C17_SeedsDefaults ==
    [][\A p \in Procs :
          (Answers(p) /\ last'.req.op = "seed" /\ last'.req.fresh)
              => LET names == <<"Food", "Transport", "Entertainment", "Shopping",
                                "Utilities", "Health", "Other">>
                 IN /\ last'.resp.status = 200
                    /\ Cardinality(categories') = 7
                    /\ \A i \in 1..7 : \E c \in categories' : c.name = names[i]
                    /\ \A i, j \in 1..7 : \A c, d \in categories' :
                          (i < j /\ c.name = names[i] /\ d.name = names[j])
                             => c.id < d.id
                    /\ Cardinality(users') = 1
                    /\ \A u \in users' : u.username = "demo"]_vars

\* A seeding that began on an empty store has ended: seven categories and the demo
\* user are stored.
C17_Witness ==
    /\ last.req.op = "seed" /\ last.req.fresh /\ last.resp.status = 200
    /\ Cardinality(categories) = 7
    /\ \E u \in users : u.username = "demo"

\* C18: a signup that carries a username and a password and whose username a user
\* already holds is answered 409 "Username already taken", and the step that
\* answers it leaves the User rows as they are.
C18_SignupConflict ==
    [][\A p \in Procs :
          (/\ Answers(p) /\ last'.req.op = "signup"
           /\ last'.req.username # "" /\ last'.req.password # ""
           /\ \E u \in users : u.username = last'.req.username)
              => /\ last'.resp = [status |-> 409,
                                  body |-> [success |-> FALSE,
                                            message |-> "Username already taken"]]
                 /\ users' = users]_vars

\* A signup was answered 409.
C18_Witness ==
    /\ last.req.op = "signup" /\ last.resp.status = 409
    /\ \E u \in users : u.username = last.req.username

\* C19: no two users share a username, no two records of a kind share an id, and
\* a profile update of an existing user to a username another user holds is
\* answered 409 and changes no user.
C19_UsernamesAndIdsUnique ==
    /\ [](/\ \A u, v \in users : (u.username = v.username \/ u.id = v.id) => u = v
          /\ \A c, d \in categories : c.id = d.id => c = d
          /\ \A e, f \in expenses : e.id = f.id => e = f
          /\ \A b, c \in budgets : b.id = c.id => b = c)
    /\ [][\A p \in Procs :
             (/\ Answers(p) /\ last'.req.op = "updateProfile"
              /\ \E u, v \in users : /\ u.id = last'.req.user
                                     /\ v.id # u.id
                                     /\ v.username = last'.req.username)
                 => /\ last'.resp.status = 409
                    /\ users' = users]_vars

\* Two users are stored and a profile update to the other user's name was
\* answered 409.
C19_Witness ==
    /\ last.req.op = "updateProfile" /\ last.resp.status = 409
    /\ Cardinality(users) >= 2
    /\ \E u \in users : u.username = last.req.username /\ u.id # last.req.user

\* C20: a signup or login without username or password, a profile update without
\* username and a change of password without old or new password are answered
\* with the error 400, and the answering step creates and changes no record and
\* advances no counter.
C20_MissingFieldRejected ==
    [][\A p \in Procs :
          (/\ Answers(p)
           /\ \/ /\ last'.req.op \in {"signup", "login"}
                 /\ last'.req.username = "" \/ last'.req.password = ""
              \/ /\ last'.req.op = "updateProfile"
                 /\ last'.req.username = ""
              \/ /\ last'.req.op = "changePassword"
                 /\ last'.req.oldPassword = "" \/ last'.req.newPassword = "")
              => /\ last'.resp.status = 400
                 /\ UNCHANGED <<store, lastInsertRowid, issued>>]_vars

\* A signup without a password was answered 400 on a seeded store.
C20_Witness ==
    /\ last.req.op = "signup" /\ last.req.password = "" /\ last.resp.status = 400
    /\ users # {}

\* C21: an operation that ends at a call of getNextId (the call failed: the store
\* was unreachable) creates and changes no record, issues no id and advances no
\* counter in that step, and does not end with success.
C21_NextIdFailure ==
    [][\A p \in Procs :
          (/\ Answers(p)
           /\ \/ pc[p] \in {"upsertBudget_getNextId", "seed_categoryId", "seed_userId"}
              \/ pc[p] = "new" /\ last'.req.op = "addExpense"
              \/ /\ pc[p] = "new" /\ last'.req.op = "signup"
                 /\ last'.req.username # "" /\ last'.req.password # "")
              => /\ last'.resp.status # 200
                 /\ UNCHANGED <<store, issued>>]_vars

\* A budget upsert that found no budget ended at its failed getNextId: no budget
\* is stored and no budget id was issued.
C21_Witness ==
    /\ last.req.op = "upsertBudget" /\ last.resp.status = 500
    /\ budgets = {}
    /\ issued["budget"] = << >>

\* C22: GET /api/expenses answers exactly the expenses of the requesting user,
\* none of another user, ordered by date descending.
C22_ListsExactlyOwnExpenses ==
    [][\A p \in Procs :
          (Answers(p) /\ last'.req.op = "listExpenses")
              => LET body == last'.resp.body
                 IN /\ last'.resp.status = 200
                    /\ { body[i].id : i \in DOMAIN body }
                          = { e.id : e \in { x \in expenses : x.user_id = last'.req.user } }
                    /\ \A i, j \in DOMAIN body : i # j => body[i].id # body[j].id
                    /\ \A i \in 1..(Len(body) - 1) :
                          ~StringLess(body[i].date, body[i + 1].date)]_vars

\* C23: a profile read, a profile update or a password change that passes its
\* validation and is for a user id with no User row answers 404 and changes
\* nothing.
C23_AbsentUserNotFound ==
    [][\A p \in Procs :
          (/\ Answers(p)
           /\ pc[p] = "new"
           /\ last'.req.op \in {"getProfile", "updateProfile", "changePassword"}
           /\ last'.resp.status # 400
           /\ \A u \in users : u.id # last'.req.user)
              => /\ last'.resp.status = 404
                 /\ UNCHANGED store]_vars

\* C24: every step of a DELETE /api/user/profile request of user u leaves the
\* categories unchanged, and leaves unchanged the users, expenses and budgets of
\* every user other than u.
C24_DeleteUserFrame ==
    [][\A p \in Procs :
          (/\ pc'[p] # pc[p]
           /\ \/ pc[p] = "new" /\ req'[p].op = "deleteUser"
              \/ pc[p] \in {"deleteUser_budgets", "deleteUser_user"})
              => LET u == IF pc'[p] = "done" THEN last'.req.user ELSE req'[p].user
                 IN /\ categories' = categories
                    /\ { x \in users' : x.id # u } = { x \in users : x.id # u }
                    /\ { e \in expenses' : e.user_id # u }
                          = { e \in expenses : e.user_id # u }
                    /\ { b \in budgets' : b.user_id # u }
                          = { b \in budgets : b.user_id # u }]_vars

\* User 1 has been deleted while an expense and a budget of user 2 are stored
\* and are still there.
C24_Witness ==
    /\ last.req.op = "deleteUser" /\ last.req.user = 1
    /\ users = {}
    /\ \E e \in expenses : e.user_id = 2
    /\ \E b \in budgets : b.user_id = 2

\* C25: the summary a request for user u and month M is answered with aggregates
\* exactly the expenses whose user_id is u and whose stored date text starts with
\* M: totalSpent is their sum, categoryBreakdown holds one entry per category
\* among them with the sum of its expenses, dailySpending one entry per date
\* among them with the sum of its expenses.
C25_AggregatesByPrefix ==
    [][\A p \in Procs :
          (Answers(p) /\ last'.req.op = "stats" /\ last'.resp.status = 200)
              => LET body     == last'.resp.body
                     selected == { e \in expenses :
                                      /\ e.user_id = last'.req.user
                                      /\ StartsWith(e.date, last'.req.month) }
                     ids      == { e.category_id : e \in selected }
                     dates    == { e.date : e \in selected }
                 IN /\ body.totalSpent = SumAmount(selected)
                    /\ \E f \in [DOMAIN body.categoryBreakdown -> ids] :
                          /\ \A c \in ids :
                                Cardinality({ i \in DOMAIN body.categoryBreakdown :
                                                 f[i] = c }) = 1
                          /\ \A i \in DOMAIN body.categoryBreakdown :
                                body.categoryBreakdown[i].value =
                                   SumAmount({ e \in selected : e.category_id = f[i] })
                    /\ \E g \in [DOMAIN body.dailySpending -> dates] :
                          /\ \A d \in dates :
                                Cardinality({ i \in DOMAIN body.dailySpending :
                                                 g[i] = d }) = 1
                          /\ \A i \in DOMAIN body.dailySpending :
                                /\ body.dailySpending[i].date = g[i]
                                /\ body.dailySpending[i].amount =
                                      SumAmount({ e \in selected : e.date = g[i] })]_vars

\* C26: in the summary a request is answered with, over a store that does not
\* change, totalSpent is the sum of the values of categoryBreakdown and the sum of
\* the amounts of dailySpending, also when an expense names no existing category.
C26_TotalsAgree ==
    [][\A p \in Procs :
          (Answers(p) /\ last'.req.op = "stats" /\ last'.resp.status = 200)
              => LET body == last'.resp.body
                     byCategory == { [i |-> i, amount |-> body.categoryBreakdown[i].value]
                                        : i \in DOMAIN body.categoryBreakdown }
                     byDate     == { [i |-> i, amount |-> body.dailySpending[i].amount]
                                        : i \in DOMAIN body.dailySpending }
                 IN /\ body.totalSpent = SumAmount(byCategory)
                    /\ body.totalSpent = SumAmount(byDate)]_vars

\* C27: a change-password request made by the Profile form (its body is what
\* handleChangePassword sends) with the user's stored password as current
\* password and a new password the form accepts is answered with success, and
\* the stored password of the user is then the new one.
C27_ProfileFormChangesPassword ==
    [][\A p \in Procs :
          (/\ Answers(p) /\ last'.req.op = "changePassword"
           /\ last'.req.body \in ProfileFormBodies
           /\ \E u \in users : /\ u.id = last'.req.user
                               /\ u.password = last'.req.body.currentPassword)
              => /\ last'.resp.status = 200
                 /\ \E u \in users' : /\ u.id = last'.req.user
                                      /\ u.password = last'.req.body.newPassword]_vars

\* C28: a change-password request is answered with success, and replaces the
\* stored password with newPassword, only when its oldPassword is the password
\* stored for the user at that time; every other request is answered with an
\* error and leaves the users unchanged.
C28_OnlyWithStoredPassword ==
    [][\A p \in Procs :
          (Answers(p) /\ last'.req.op = "changePassword")
              => IF last'.resp.status = 200
                 THEN /\ \E u \in users : /\ u.id = last'.req.user
                                          /\ u.password = last'.req.oldPassword
                      /\ \E u \in users' : /\ u.id = last'.req.user
                                           /\ u.password = last'.req.newPassword
                 ELSE users' = users]_vars

\* C29: once every call of fetchData the page made has completed, the budgets
\* and the stats on display are answers of the server for the month the page has
\* selected.
C29_DisplaysSelectedMonth ==
    (/\ \A p \in Procs : pc[p] \in {"new", "done"}
     /\ last.req.op = "fetchData")
        => /\ ui.budgets \in BudgetsBody(variant, 1, FormatYearMonth(ui.currentMonth))
           /\ ui.stats \in StatsBody(variant, 1, FormatYearMonth(ui.currentMonth))

\* C30: when a seeding that began on a store without categories and users ends,
\* whatever signups were served in between, a user named "demo" exists and has
\* the id 1.
C30_DemoUserHasId1 ==
    [][\A p \in Procs :
          (Answers(p) /\ last'.req.op = "seed" /\ last'.req.fresh)
              => \E u \in users' : u.username = "demo" /\ u.id = 1]_vars
====
